---- MODULE Spec2Model ----
(***************************************************************************)
(* Timeline execution core of MovieClip                                    *)
(* (core/src/display_object/movie_clip.rs).                                *)
(*                                                                         *)
(* One clip is modelled together with the collaborators it calls: the      *)
(* character library, the action queue, the audio backend and the load     *)
(* manager.  Its                                                           *)
(* children are display nodes kept in a heap (nodes) and reached through   *)
(* the depth map (children) and the execution list (first_child and the    *)
(* prev_sibling / next_sibling links).  A child of kind "MovieClip" is a    *)
(* sprite whose own timeline is empty (one frame, no tags, no clip          *)
(* actions): it queues its Construct / Load / EnterFrame / Unload work but  *)
(* has no children of its own.                                             *)
(*                                                                         *)
(* Positions in the tag stream are counted in tags: tag_stream_pos = p     *)
(* means that the next tag to decode is swf[p + 1].  The last tag of a      *)
(* stream may declare more bytes than the slice holds (truncated).          *)
(*                                                                         *)
(* The operations of the clip are operators from clip state to clip state; *)
(* every action of the specification applies one of them to the current    *)
(* state.  action_queue, audio_calls and load_calls hold what the running  *)
(* operation handed to the action queue, to the audio backend and to the   *)
(* load manager: the player drains the queue between operations            *)
(* (Player::run_actions), so every operation starts with them empty.       *)
(***************************************************************************)
EXTENDS FiniteSets, Integers, Sequences, TLC

\* ------------------------------------------------------------------ bounds
MaxFrames == 3
MaxTags   == 2
MaxAvmTags == 1
MaxStream == 3
MaxLabelTags == 2
MaxSoundStream == 4
MaxKeyFrames == 2
MaxCallTags == 3
MaxSeekTags == 3

\* FrameNumber = u16
MaxFrameNumber == 65535

None   == "None"
NoNode == 0
Depths == {1, 2}
AvmDepths == {1}

\* ------------------------------------------------------------- tag values
\* swf::PlaceObject: the action, the depth and the optional fields that
\* GotoPlaceObject::new and GotoPlaceObject::merge read.
PlaceFields ==
    {"matrix", "color_transform", "ratio", "name", "clip_depth", "class_name",
     "background_color"}

NoFields == [f \in PlaceFields |-> None]

PlaceObject(action, id, depth, fields) ==
    [code |-> "PlaceObject", action |-> action, id |-> id, depth |-> depth,
     fields |-> fields]

RemoveObject(depth) == [code |-> "RemoveObject", depth |-> depth]
DoAction(data)      == [code |-> "DoAction", data |-> data]
ShowFrame           == [code |-> "ShowFrame"]
EndTag              == [code |-> "End"]
SoundStreamHead     == [code |-> "SoundStreamHead"]
SoundStreamBlock    == [code |-> "SoundStreamBlock"]
DefineFont4         == [code |-> "DefineFont4"]
DefineShape(id)     == [code |-> "DefineShape", id |-> id]
UnknownTag          == [code |-> "Unknown"]
FrameLabel(label)   == [code |-> "FrameLabel", label |-> label]
DoInitAction(data)  == [code |-> "DoInitAction", data |-> data]
DoAbc(data)         == [code |-> "DoAbc", data |-> data]

\* The character library of the movie before the clip is preloaded: the ids
\* the enclosing movie has registered, with the kind of display object each
\* one instantiates.  Character 3 is not registered, character 0 never is.
Library0 == (1 :> "Graphic") @@ (2 :> "MovieClip")

\* Control tags a frame of a well-formed timeline is drawn from.
ControlTags ==
    { PlaceObject("Place", 1, 1, NoFields),
      PlaceObject("Place", 2, 1, [NoFields EXCEPT !.matrix = "M1"]),
      PlaceObject("Replace", 1, 1, [NoFields EXCEPT !.name = "n"]),
      PlaceObject("Modify", 0, 1,
                  [NoFields EXCEPT !.matrix = "M2", !.background_color = "B"]),
      PlaceObject("Place", 3, 1, NoFields),
      PlaceObject("Place", 2, 2, NoFields),
      RemoveObject(1),
      DoAction("a"),
      SoundStreamBlock }

\* Tags an arbitrary (possibly malformed) stream is drawn from.
AnyTags ==
    { ShowFrame, EndTag, UnknownTag, DefineFont4, DefineShape(3), DoAction("a"),
      PlaceObject("Place", 3, 1, NoFields), SoundStreamBlock }

\* Frame labels: strings, as the sequences of their characters.  "a", "A",
\* "b" and "B" are ASCII letters; "e-acute" and "E-ACUTE" stand for U+00E9
\* and U+00C9, which are letters but not ASCII.
LabelNames ==
    { <<"a">>, <<"A">>, <<"e-acute">>, <<"E-ACUTE">>, <<"a", "B">>, <<"A", "b">> }

LabelTags == {FrameLabel(label) : label \in LabelNames}

RECURSIVE SeqsUpTo(_, _)
SeqsUpTo(S, n) ==
    IF n = 0 THEN {<<>>}
    ELSE LET shorter == SeqsUpTo(S, n - 1)
         IN shorter \cup {Append(q, x) : q \in {r \in shorter : Len(r) = n - 1}, x \in S}

HasCode(stream, code) == \E i \in 1..Len(stream) : stream[i].code = code

CountCode(stream, code) == Cardinality({i \in 1..Len(stream) : stream[i].code = code})

\* The tags of at most f whole frames, each closed by its ShowFrame, with at
\* most t control tags in all.
RECURSIVE Frames(_, _)
Frames(f, t) ==
    IF f = 0 THEN {<<>>}
    ELSE {<<>>}
         \cup {<<ShowFrame>> \o rest : rest \in Frames(f - 1, t)}
         \cup (IF t = 0 THEN {}
               ELSE {<<x>> \o rest : x \in ControlTags,
                                     rest \in Frames(f, t - 1) \ {<<>>}})

\* The same with the control tags drawn from a given set.
RECURSIVE FramesOf(_, _, _)
FramesOf(tags, f, t) ==
    IF f = 0 THEN {<<>>}
    ELSE {<<>>}
         \cup {<<ShowFrame>> \o rest : rest \in FramesOf(tags, f - 1, t)}
         \cup (IF t = 0 THEN {}
               ELSE {<<x>> \o rest : x \in tags,
                                     rest \in FramesOf(tags, f, t - 1) \ {<<>>}})

\* A well-formed timeline: the frames' control tags, a ShowFrame after each
\* frame, the End tag, and a SoundStreamHead in front when it streams sound.
Timeline(body) ==
    IF HasCode(body, "SoundStreamBlock") THEN <<SoundStreamHead>> \o body \o <<EndTag>>
    ELSE body \o <<EndTag>>

Timelines == {Timeline(body) : body \in Frames(MaxFrames, MaxTags) \ {<<>>}}

AvmTimelines == {Timeline(body) : body \in Frames(MaxFrames, MaxAvmTags) \ {<<>>}}

\* SwfMovie::empty: no tags, a header of no frames
EmptyMovie == <<>>

\* The movies a loader hands to replace_with_movie: silent or streaming sound.
LoadedMovies ==
    { Timeline(<<ShowFrame>>), Timeline(<<SoundStreamBlock, ShowFrame, ShowFrame>>) }

\* Option<Arc<SwfMovie>>
MovieArgs == {<<>>} \cup {<<movie>> : movie \in LoadedMovies}

\* Timelines that place at and remove from the depth a script attaches to.
RemoveTags ==
    { PlaceObject("Place", 1, 1, NoFields),
      PlaceObject("Place", 2, 1, [NoFields EXCEPT !.matrix = "M1"]),
      RemoveObject(1) }

RemoveTimelines ==
    {Timeline(body) : body \in FramesOf(RemoveTags, MaxFrames, MaxTags) \ {<<>>}}

\* Tag streams that hold stream headers and stream blocks in any order.
SoundTags == { ShowFrame, EndTag, SoundStreamHead, SoundStreamBlock }

SoundStreams ==
    {stream \in SeqsUpTo(SoundTags, MaxSoundStream) : HasCode(stream, "ShowFrame")}

\* Timelines of init actions and ABC blocks.
InitActionTags == { DoInitAction("i"), DoInitAction("j"), DoAbc("x") }

InitActionTimelines ==
    {Timeline(body) : body \in FramesOf(InitActionTags, MaxFrames, MaxTags) \ {<<>>}}

\* Timelines that place sprites at two depths.
KeyTags ==
    { PlaceObject("Place", 2, 1, [NoFields EXCEPT !.matrix = "M1"]),
      PlaceObject("Place", 2, 2, NoFields),
      PlaceObject("Place", 1, 2, NoFields) }

KeyTimelines ==
    {Timeline(body) : body \in FramesOf(KeyTags, MaxKeyFrames, MaxTags) \ {<<>>}}

\* Clip actions of key events, of the clip and of a child.
KeyClipActions ==
    << [event |-> "KeyPress", action_data |-> "ca_key"],
       [event |-> "KeyDown", action_data |-> "ca_down"] >>

ChildClipActions ==
    { << [event |-> "KeyPress", action_data |-> "child_key"] >>,
      << [event |-> "KeyDown", action_data |-> "child_down"] >> }

\* The events the player hands to handle_clip_event.
ClipEvents == {"KeyPress", "KeyDown", "EnterFrame"}

\* The events a caller hands to run_clip_event.
AnyClipEvents == ClipEvents \cup {"Load", "Unload", "Construct"}

\* The clip actions a caller hands to set_clip_actions of the clip.
ClipActionArgs == {<<>>, KeyClipActions, <<KeyClipActions[2]>>}

\* Timelines of frame labels, some with a tag preload does not implement.
LabelTimelines ==
    {Timeline(body) :
        body \in FramesOf(LabelTags \cup {DefineFont4}, MaxFrames, MaxLabelTags) \ {<<>>}}

\* The clip actions set_clip_actions installed on the clip.
ClipActions0 ==
    << [event |-> "Load", action_data |-> "ca_load"],
       [event |-> "EnterFrame", action_data |-> "ca_enter"],
       [event |-> "Unload", action_data |-> "ca_unload"] >>

SwfVersions == {4, 5, 6}

\* ------------------------------------------------------------------ state
VARIABLES
    swf,               \* static_data.swf: the clip's tag stream
    truncated,         \* the last tag declares more bytes than the slice holds
    total_frames,      \* static_data.total_frames (the header's num_frames)
    swf_version,       \* context.swf.version()
    clip_actions,      \* MovieClipData::clip_actions
    avm1_constructor,  \* MovieClipData::avm1_constructor is Some
    library,           \* context.library: character id -> kind
    audio_stream_info, \* static_data.audio_stream_info is Some
    audio_started,     \* context.audio.start_stream returns Ok
    overflow_checks,   \* the build panics on integer overflow (it wraps otherwise)
    frame_labels,      \* static_data.frame_labels: label -> frame
    preloaded,         \* MovieClip::preload has run
    current_frame,     \* MovieClipData::current_frame
    tag_stream_pos,    \* MovieClipData::tag_stream_pos
    audio_stream,      \* MovieClipData::audio_stream
    children,          \* MovieClipData::children: depth -> node
    first_child,       \* base.first_child: head of the execution list
    nodes,             \* the display nodes: node -> its fields
    object,            \* MovieClipData::object is Some
    playing,           \* MovieClipFlags::Playing
    initialized,       \* MovieClipFlags::Initialized
    removed,           \* base.removed
    action_queue,      \* context.action_queue, since the last drain
    audio_calls,       \* calls made to context.audio, since the last drain
    avm1_runs,         \* code Avm1 has run on the spot, since the last drain
    load_calls,        \* calls made to context.load_manager, since the last drain
    panicked,          \* the operation aborted (panic)
    last               \* the operation that ran last, the frame it ran from, and
                       \* whether run_frame has been called so far

vars ==
    << swf, truncated, total_frames, swf_version, clip_actions, avm1_constructor,
       library,
       audio_stream_info, audio_started, overflow_checks, frame_labels, preloaded, current_frame, tag_stream_pos, audio_stream,
       children, first_child, nodes, object, playing, initialized, removed,
       action_queue, audio_calls, avm1_runs, load_calls, panicked, last >>

\* The clip and its context as one value, as the operations below take it.
Clip ==
    [ library |-> library, audio_stream_info |-> audio_stream_info,
      frame_labels |-> frame_labels,
      current_frame |-> current_frame, tag_stream_pos |-> tag_stream_pos,
      audio_stream |-> audio_stream, children |-> children,
      first_child |-> first_child, nodes |-> nodes, object |-> object,
      playing |-> playing, initialized |-> initialized, removed |-> removed,
      action_queue |-> action_queue, audio_calls |-> audio_calls,
      avm1_runs |-> avm1_runs, load_calls |-> load_calls,
      panicked |-> panicked ]


\* ------------------------------------------------------- small utilities
Self == 0    \* the clip itself, as the target of a queued action

EmptyMap == [d \in {} |-> NoNode]

MapInsert(m, k, v) == [d \in DOMAIN m \cup {k} |-> IF d = k THEN v ELSE m[d]]
MapRemove(m, k)    == [d \in DOMAIN m \ {k} |-> m[d]]
MapGet(m, k)       == IF k \in DOMAIN m THEN m[k] ELSE NoNode

DefaultFields == [f \in PlaceFields |-> "Default"]

\* HashMap::new()
NoLabels == [l \in {} |-> 0]

\* u8::to_ascii_lowercase, on the characters of the model
char_to_ascii_lowercase(c) ==
    CASE c = "A" -> "a"
      [] c = "B" -> "b"
      [] OTHER   -> c

\* str::to_ascii_lowercase / String::make_ascii_lowercase
to_ascii_lowercase(label) ==
    [i \in 1..Len(label) |-> char_to_ascii_lowercase(label[i])]

\* unwinding: the first panic stops everything that follows
Panic(s) == [s EXCEPT !.panicked = TRUE]

\* ActionQueue::queue_actions
queue_actions(s, clip, action, data, is_unload) ==
    [s EXCEPT !.action_queue =
        Append(@, [clip |-> clip, action |-> action, data |-> data,
                   is_unload |-> is_unload])]

\* ClipEvent::method_name: the handler method of an event, if it has one
method_name(event) ==
    CASE event = "Load"       -> "onLoad"
      [] event = "EnterFrame" -> "onEnterFrame"
      [] event = "Unload"     -> "onUnload"
      [] event = "KeyDown"    -> "onKeyDown"
      [] OTHER                -> None

IsKeyPress(event) == event = "KeyPress"

\* MovieClipData::stop_audio_stream
stop_audio_stream(s) ==
    IF s.audio_stream # None
    THEN [s EXCEPT !.audio_stream = None,
                   !.audio_calls = Append(@, [call |-> "stop_stream", handle |-> s.audio_stream])]
    ELSE s

\* MovieClipData::stop
stop(s) == stop_audio_stream([s EXCEPT !.playing = FALSE])

\* MovieClipData::play
play(s) == IF total_frames > 1 THEN [s EXCEPT !.playing = TRUE] ELSE s

\* MovieClipData::run_clip_event on the clip itself; the result says in
\* handled whether a KeyPress handler consumed the event.
run_clip_event_result(s, event) ==
    IF swf_version >= 5
    THEN LET matching == SelectSeq(clip_actions, LAMBDA a : a.event = event)
             normal == [i \in 1..Len(matching) |->
                          [clip |-> Self, action |-> "Normal",
                           data |-> matching[i].action_data,
                           is_unload |-> (event = "Unload")]]
             s1 == [s EXCEPT !.action_queue = @ \o normal]
             handled == IsKeyPress(event) /\ Len(matching) > 0
         IN IF swf_version >= 6 /\ method_name(event) # None
            THEN IF ~s1.object
                 THEN [s |-> Panic(s1), handled |-> handled]      \* self.object.unwrap()
                 ELSE [s |-> queue_actions(s1, Self, "Method", method_name(event),
                                           event = "Unload"),
                       handled |-> handled]
            ELSE [s |-> s1, handled |-> handled]
    ELSE [s |-> s, handled |-> FALSE]

run_clip_event(s, event) == run_clip_event_result(s, event).s

\* LoadManager::movie_clip_on_load: the load manager is told that the clip
\* has fired its Load event and whether it has a script object; what it
\* queues for its loaders is its own
movie_clip_on_load(s, clip, has_object) ==
    [s EXCEPT !.load_calls = Append(@, [clip |-> clip, object |-> has_object])]

\* MovieClipData::run_clip_postevent
run_clip_postevent(s, event) ==
    IF event = "Load" THEN movie_clip_on_load(s, Self, s.object) ELSE s

\* run_clip_event of a child sprite: its script object exists
\* (post_instantiation ran when it was created).
child_run_clip_event_result(s, child, event) ==
    IF swf_version >= 5
    THEN LET matching == SelectSeq(s.nodes[child].clip_actions, LAMBDA a : a.event = event)
             normal == [i \in 1..Len(matching) |->
                          [clip |-> child, action |-> "Normal",
                           data |-> matching[i].action_data,
                           is_unload |-> (event = "Unload")]]
             handled == IsKeyPress(event) /\ Len(matching) > 0
             queued(s1) ==
                 IF swf_version >= 6 /\ method_name(event) # None
                 THEN queue_actions(s1, child, "Method", method_name(event),
                                    event = "Unload")
                 ELSE s1
         IN [s |-> queued([s EXCEPT !.action_queue = @ \o normal]), handled |-> handled]
    ELSE [s |-> s, handled |-> FALSE]

child_run_clip_event(s, child, event) == child_run_clip_event_result(s, child, event).s

\* ClipEvent::propagates
propagates(event) == event \in {"KeyPress", "KeyDown"}

\* handle_clip_event of a child: a sprite dispatches to itself (it has no
\* children of its own here), any other display object does not handle events.
child_handle_clip_event(s, child, event) ==
    IF s.nodes[child].kind = "MovieClip"
    THEN child_run_clip_event_result(s, child, event)
    ELSE [s |-> s, handled |-> FALSE]

\* MovieClip::handle_clip_event: the loop over self.children()
RECURSIVE handle_children(_, _, _)
handle_children(s, list, event) ==
    IF list = <<>> THEN [s |-> s, handled |-> FALSE]
    ELSE LET offered(r) == IF r.handled THEN r
                           ELSE handle_children(r.s, Tail(list), event)
         IN offered(child_handle_clip_event(s, Head(list), event))

\* Every sprite of the depth map dispatches the event to itself.
for_each_handler(s, event) ==
    LET sprites == {d \in DOMAIN s.children : s.nodes[s.children[d]].kind = "MovieClip"}
        both == IF sprites = {} THEN s
                ELSE LET lo == CHOOSE d \in sprites : \A e \in sprites : d <= e
                         hi == CHOOSE d \in sprites : \A e \in sprites : d >= e
                         first == child_run_clip_event(s, s.children[lo], event)
                     IN IF hi = lo THEN first
                        ELSE child_run_clip_event(first, s.children[hi], event)
    IN both

\* A dispatch that offers the event to every child and to the clip.
handle_clip_event_to_all(s, event) ==
    LET own(r) == [s |-> run_clip_event_result(r.s, event).s, handled |-> TRUE]
    IN own([s |-> for_each_handler(s, event), handled |-> FALSE])

\* TDisplayObject::unload of a child: a sprite fires its Unload event, every
\* kind of node is marked removed.
child_unload(s, child) ==
    LET s1 == IF s.nodes[child].kind = "MovieClip"
              THEN child_run_clip_event(s, child, "Unload")
              ELSE s
    IN [s1 EXCEPT !.nodes[child].removed = TRUE,
                  !.nodes[child].unloaded = @ + 1]

\* TDisplayObject::run_frame of a child: a sprite that has not run its first
\* frame fires Load, is initialized and ends with the hook that follows the
\* Load event; afterwards it fires EnterFrame.
child_run_frame(s, child) ==
    IF s.nodes[child].kind = "MovieClip"
    THEN IF s.nodes[child].initialized
         THEN child_run_clip_event(s, child, "EnterFrame")
         ELSE movie_clip_on_load(
                  child_run_clip_event([s EXCEPT !.nodes[child].initialized = TRUE],
                                       child, "Load"),
                  child, TRUE)
    ELSE s

\* An insertion that links the new child behind the head of the list.
add_child_behind_head(s, child) ==
    LET head == s.first_child
        next == IF head # NoNode THEN s.nodes[head].next_sibling ELSE NoNode
        n1 == IF head # NoNode
              THEN [s.nodes EXCEPT ![head].next_sibling = child,
                                   ![child].prev_sibling = head,
                                   ![child].next_sibling = next]
              ELSE s.nodes
        n2 == IF next # NoNode THEN [n1 EXCEPT ![next].prev_sibling = child] ELSE n1
    IN [s EXCEPT !.nodes = n2, !.first_child = IF head # NoNode THEN head ELSE child]

\* MovieClipData::add_child_to_exec_list
add_child_to_exec_list(s, child) ==
    LET head == s.first_child
        linked == IF head # NoNode
                  THEN [s.nodes EXCEPT ![head].prev_sibling = child,
                                       ![child].next_sibling = head]
                  ELSE s.nodes
    IN [s EXCEPT !.nodes = linked, !.first_child = child]

\* A removal that forgets that the removed child may be the head of the list.
remove_child_from_exec_list_keep_head(s, child) ==
    LET prev == s.nodes[child].prev_sibling
        next == s.nodes[child].next_sibling
        n1 == IF prev # NoNode THEN [s.nodes EXCEPT ![prev].next_sibling = next]
              ELSE s.nodes
        n2 == IF next # NoNode THEN [n1 EXCEPT ![next].prev_sibling = prev] ELSE n1
    IN child_unload([s EXCEPT !.nodes = n2], child)

\* MovieClipData::remove_child_from_exec_list
remove_child_from_exec_list(s, child) ==
    LET prev == s.nodes[child].prev_sibling
        next == s.nodes[child].next_sibling
        n1 == IF prev # NoNode THEN [s.nodes EXCEPT ![prev].next_sibling = next]
              ELSE s.nodes
        n2 == IF next # NoNode THEN [n1 EXCEPT ![next].prev_sibling = prev] ELSE n1
        head == IF s.first_child # NoNode /\ s.first_child = child THEN next
                ELSE s.first_child
    IN child_unload([s EXCEPT !.nodes = n2, !.first_child = head], child)

\* the node a new allocation gets: the first one not in the heap
NewNode(s) ==
    CHOOSE n \in 1..(Cardinality(DOMAIN s.nodes) + 1) :
        /\ n \notin DOMAIN s.nodes
        /\ \A m \in 1..(n - 1) : m \in DOMAIN s.nodes

FreshNode(id, kind) ==
    [id |-> id, kind |-> kind, depth |-> 0, place_frame |-> 0, parent |-> FALSE,
     prev_sibling |-> NoNode, next_sibling |-> NoNode, removed |-> FALSE,
     unloaded |-> 0, props |-> DefaultFields, clip_actions |-> <<>>,
     initialized |-> FALSE]

\* TDisplayObject::apply_place_object: every field the delta has is set
apply_place_object(s, child, fields) ==
    [s EXCEPT !.nodes[child].props =
        [f \in PlaceFields |-> IF fields[f] # None THEN fields[f] ELSE @[f]]]

\* TDisplayObject::copy_display_properties_from
copy_display_properties_from(s, child, other) ==
    [s EXCEPT !.nodes[child].props = s.nodes[other].props]

\* MovieClip::post_instantiation of a new child, then its first run_frame: a
\* sprite gets its script object, queues its Construct action, fires Load and
\* then the hook that follows the Load event.
child_first_frame(s, child) ==
    IF s.nodes[child].kind = "MovieClip"
    THEN child_run_frame(queue_actions(s, child, "Construct", <<>>, FALSE), child)
    ELSE s

\* Library::instantiate_by_id succeeds
can_instantiate(s, id) == id \in DOMAIN s.library

\* An instantiate_child that makes room at the depth before it asks the
\* library for the character.
instantiate_child_evict_first(s, id, depth, fields, copy_previous_properties) ==
    LET prev_child == MapGet(s.children, depth)
        s0 == IF prev_child # NoNode
              THEN remove_child_from_exec_list(
                       [s EXCEPT !.children = MapRemove(@, depth)], prev_child)
              ELSE s
    IN IF can_instantiate(s, id)
       THEN LET child == NewNode(s0)
                s1 == [s0 EXCEPT !.nodes = @ @@ (child :> FreshNode(id, s.library[id])),
                                 !.children = MapInsert(@, depth, child)]
                s3 == add_child_to_exec_list(s1, child)
                s4 == [s3 EXCEPT !.nodes[child].depth = depth,
                                 !.nodes[child].parent = TRUE,
                                 !.nodes[child].place_frame = s.current_frame]
                copied(s5) == IF copy_previous_properties /\ prev_child # NoNode
                              THEN copy_display_properties_from(s5, child, prev_child)
                              ELSE s5
            IN child_first_frame(apply_place_object(copied(s4), child, fields), child)
       ELSE s0

\* MovieClip::instantiate_child; the new child, when there is one, is
\* NewNode(s) of the state it was called in.
instantiate_child(s, id, depth, fields, copy_previous_properties) ==
    IF can_instantiate(s, id)
    THEN LET child == NewNode(s)
             prev_child == MapGet(s.children, depth)
             s1 == [s EXCEPT !.nodes = @ @@ (child :> FreshNode(id, s.library[id])),
                             !.children = MapInsert(@, depth, child)]
             s2 == IF prev_child # NoNode THEN remove_child_from_exec_list(s1, prev_child)
                   ELSE s1
             s3 == add_child_to_exec_list(s2, child)
             s4 == [s3 EXCEPT !.nodes[child].depth = depth,
                              !.nodes[child].parent = TRUE,
                              !.nodes[child].place_frame = s.current_frame]
             copied(s5) == IF copy_previous_properties /\ prev_child # NoNode
                           THEN copy_display_properties_from(s5, child, prev_child)
                           ELSE s5
         IN child_first_frame(apply_place_object(copied(s4), child, fields), child)
    ELSE s    \* "Unable to instantiate display node"

\* MovieClip::place_object
place_object(s, tag) ==
    IF tag.action \in {"Place", "Replace"}
    THEN instantiate_child(s, tag.id, tag.depth, tag.fields, tag.action = "Replace")
    ELSE IF tag.depth \in DOMAIN s.children
         THEN apply_place_object(s, s.children[tag.depth], tag.fields)
         ELSE s

\* MovieClip::remove_object
remove_object(s, tag) ==
    IF tag.depth \in DOMAIN s.children
    THEN remove_child_from_exec_list(
             [s EXCEPT !.children = MapRemove(@, tag.depth)], s.children[tag.depth])
    ELSE s

\* SwfSlice::resize_to_reader(reader, tag_len) of a reader that has read
\* nothing of the payload of the tag at pos: the slice is the payload; None
\* unless it ends before the end of the data, that is unless a tag follows
payload_slice(pos) == IF pos + 1 < Len(swf) THEN <<swf[pos + 1].data>> ELSE <<>>

\* MovieClip::do_action of the tag at pos: without a slice the handler fails
\* and nothing is queued
do_action(s, pos) ==
    LET queue(slice) == IF slice = <<>> THEN s
                        ELSE queue_actions(s, Self, "Normal", slice[1], FALSE)
    IN queue(payload_slice(pos))

\* FrameNumber arithmetic: a sum or a difference that does not fit 16 bits
\* panics in a build with overflow checks and wraps in a build without.
overflows(n) == n < 0 \/ n > MaxFrameNumber

wrapping(n) == n % (MaxFrameNumber + 1)

\* A sound_stream_block that starts a stream whether or not one is held.
sound_stream_block_restart(s) ==
    IF s.audio_stream_info
    THEN [s EXCEPT !.audio_stream = IF audio_started THEN "stream" ELSE None,
                   !.audio_calls = Append(@, [call |-> "start_stream",
                                              frame |-> s.current_frame + 1,
                                              pos |-> s.tag_stream_pos])]
    ELSE s

\* MovieClip::sound_stream_block
sound_stream_block(s) ==
    IF s.audio_stream_info /\ s.audio_stream = None
    THEN IF overflows(s.current_frame + 1) /\ overflow_checks
         THEN Panic(s)     \* mc.current_frame() + 1
         ELSE [s EXCEPT !.audio_stream = IF audio_started THEN "stream" ELSE None,
                        !.audio_calls = Append(@, [call |-> "start_stream",
                                                   frame |-> wrapping(s.current_frame + 1),
                                                   pos |-> s.tag_stream_pos])]
    ELSE s


\* --------------------------------------------------------- goto commands
\* GotoPlaceObject::new
GotoPlaceObject_new(frame, place, is_rewind, index) ==
    LET defaulted == {"matrix", "color_transform", "ratio", "name", "clip_depth",
                      "class_name"}
        fields == IF is_rewind /\ place.action = "Place"
                  THEN [f \in PlaceFields |->
                          IF f \in defaulted /\ place.fields[f] = None THEN "Default"
                          ELSE place.fields[f]]
                  ELSE place.fields
    IN [frame |-> frame, action |-> place.action, id |-> place.id,
        depth |-> place.depth, fields |-> fields, index |-> index]

\* GotoPlaceObject::id
GotoPlaceObject_id(c) == IF c.action = "Modify" THEN 0 ELSE c.id

\* GotoPlaceObject::modifies_original_item
modifies_original_item(c) == c.action = "Replace"

\* A merge that keeps none of the fields the next delta leaves out.
merge_next_fields(cur, next) ==
    [cur EXCEPT !.action = IF next.action = "Modify" THEN @ ELSE next.action,
                !.id = IF next.action = "Modify" THEN @ ELSE next.id,
                !.frame = IF next.action = "Modify" THEN @ ELSE next.frame,
                !.fields = next.fields]

\* A merge that takes the fields of the next delta but never its action.
merge_fields_only(cur, next) ==
    [cur EXCEPT !.fields =
        [f \in PlaceFields |-> IF next.fields[f] # None THEN next.fields[f] ELSE @[f]]]

\* GotoPlaceObject::merge
merge(cur, next) ==
    LET acted == IF next.action = "Modify" THEN cur
                 ELSE [cur EXCEPT !.action = next.action, !.id = next.id,
                                  !.frame = next.frame]
    IN [acted EXCEPT !.fields =
          [f \in PlaceFields |-> IF next.fields[f] # None THEN next.fields[f] ELSE @[f]]]

\* goto_commands.iter().position(|o| o.depth() == depth), 0 when there is none
position(cmds, depth) ==
    IF \E i \in 1..Len(cmds) : cmds[i].depth = depth
    THEN CHOOSE i \in 1..Len(cmds) :
            cmds[i].depth = depth /\ \A j \in 1..(i - 1) : cmds[j].depth # depth
    ELSE 0

\* Vec::swap_remove
swap_remove(cmds, i) ==
    [j \in 1..(Len(cmds) - 1) |-> IF j = i THEN cmds[Len(cmds)] ELSE cmds[j]]

\* MovieClipData::goto_place_object
goto_place_object(cmds, frame, tag, is_rewind, index) ==
    LET goto_place == GotoPlaceObject_new(frame, tag, is_rewind, index)
        i == position(cmds, tag.depth)
    IN IF i # 0 THEN [cmds EXCEPT ![i] = merge(@, goto_place)]
       ELSE Append(cmds, goto_place)

\* A RemoveObject that leaves the pending commands as they are.
goto_remove_commands_kept(cmds, tag) == cmds

\* MovieClipData::goto_remove_object: the commands it leaves
goto_remove_commands(cmds, tag) ==
    LET i == position(cmds, tag.depth)
    IN IF i # 0 THEN swap_remove(cmds, i) ELSE cmds

\* MovieClipData::goto_remove_object: the clip it leaves
goto_remove_object(s, tag, is_rewind) ==
    IF ~is_rewind /\ tag.depth \in DOMAIN s.children
    THEN remove_child_from_exec_list(
             [s EXCEPT !.children = MapRemove(@, tag.depth)], s.children[tag.depth])
    ELSE s

\* goto_commands.sort_by_key(|params| params.index)
RECURSIVE sort_by_index(_)
sort_by_index(cmds) ==
    IF cmds = <<>> THEN <<>>
    ELSE LET i == CHOOSE k \in 1..Len(cmds) :
                     \A j \in 1..Len(cmds) : cmds[k].index <= cmds[j].index
             rest == [j \in 1..(Len(cmds) - 1) |-> IF j < i THEN cmds[j] ELSE cmds[j + 1]]
         IN <<cmds[i]>> \o sort_by_index(rest)

\* ------------------------------------------------------------ tag reader
\* tag_stream_len
tag_stream_len == Len(swf)

\* where the tag at pos ends, by the length its header declares; behind a
\* truncated last tag that is past the end of the data, and the header read
\* that fails there leaves the reader at the end of the data
tag_end(pos) == IF truncated /\ pos + 1 = Len(swf) THEN pos + 2 ELSE pos + 1

\* the tag_callback of run_frame_internal, past its slice
run_frame_tag(s, pos, run_display_actions) ==
    LET tag == swf[pos + 1]
    IN CASE tag.code = "DoAction" -> do_action(s, pos)
         [] tag.code = "PlaceObject" /\ run_display_actions -> place_object(s, tag)
         [] tag.code = "RemoveObject" /\ run_display_actions -> remove_object(s, tag)
         [] tag.code = "SoundStreamBlock" -> sound_stream_block(s)
         [] OTHER -> s

\* tag_utils::decode_tags(reader, tag_callback, ShowFrame) in run_frame_internal
RECURSIVE run_frame_tags(_, _, _, _)
run_frame_tags(s, pos, has_stream_block, run_display_actions) ==
    IF pos >= tag_stream_len
    THEN [s |-> s, pos |-> tag_stream_len, has_stream_block |-> has_stream_block]
    ELSE LET tag == swf[pos + 1]
             block == has_stream_block \/ tag.code = "SoundStreamBlock"
             decoded(s1) ==
                 IF tag.code = "ShowFrame" \/ s1.panicked
                 THEN [s |-> s1, pos |-> tag_end(pos), has_stream_block |-> block]
                 ELSE run_frame_tags(s1, tag_end(pos), block, run_display_actions)
         IN IF tag.code = "Unknown"
            THEN run_frame_tags(s, tag_end(pos), has_stream_block, run_display_actions)
            ELSE IF tag_end(pos) > tag_stream_len
            THEN \* &data[tag_pos..tag_pos + tag_len]
                 [s |-> Panic(s), pos |-> pos, has_stream_block |-> has_stream_block]
            ELSE decoded(run_frame_tag(s, pos, run_display_actions))

\* tag_utils::decode_tags(reader, tag_callback, ShowFrame) in run_goto
RECURSIVE goto_tags(_, _, _, _, _)
goto_tags(s, pos, cmds, index, is_rewind) ==
    IF pos >= tag_stream_len
    THEN [s |-> s, pos |-> tag_stream_len, cmds |-> cmds, index |-> index]
    ELSE LET tag == swf[pos + 1]
         IN IF tag.code = "Unknown"
            THEN goto_tags(s, tag_end(pos), cmds, index, is_rewind)
            ELSE IF tag_end(pos) > tag_stream_len
            THEN [s |-> Panic(s), pos |-> pos, cmds |-> cmds, index |-> index]
            ELSE IF tag.code = "ShowFrame"
            THEN [s |-> s, pos |-> tag_end(pos), cmds |-> cmds, index |-> index]
            ELSE IF tag.code = "PlaceObject"
            THEN goto_tags(s, tag_end(pos),
                           goto_place_object(cmds, s.current_frame, tag, is_rewind,
                                             index + 1),
                           index + 1, is_rewind)
            ELSE IF tag.code = "RemoveObject"
            THEN goto_tags(goto_remove_object(s, tag, is_rewind), tag_end(pos),
                           goto_remove_commands(cmds, tag), index, is_rewind)
            ELSE goto_tags(s, tag_end(pos), cmds, index, is_rewind)

\* A loop that aggregates to the end of the stream, whatever the target.
RECURSIVE goto_frames_to_end(_, _, _, _, _, _, _)
goto_frames_to_end(s, pos, frame_pos, cmds, index, clamped_frame, is_rewind) ==
    IF frame_pos < tag_stream_len /\ ~s.panicked
    THEN LET decoded(r) ==
                 goto_frames_to_end(r.s, r.pos, pos, r.cmds, r.index, clamped_frame,
                                    is_rewind)
         IN decoded(goto_tags([s EXCEPT !.current_frame = @ + 1], pos, cmds, index,
                              is_rewind))
    ELSE [s |-> s, frame_pos |-> frame_pos, cmds |-> cmds]

\* the while loop of run_goto: one frame of deltas per round
RECURSIVE goto_frames(_, _, _, _, _, _, _)
goto_frames(s, pos, frame_pos, cmds, index, clamped_frame, is_rewind) ==
    IF s.current_frame < clamped_frame /\ frame_pos < tag_stream_len /\ ~s.panicked
    THEN LET decoded(r) ==
                 goto_frames(r.s, r.pos, pos, r.cmds, r.index, clamped_frame, is_rewind)
         IN decoded(goto_tags([s EXCEPT !.current_frame = @ + 1], pos, cmds, index,
                              is_rewind))
    ELSE [s |-> s, frame_pos |-> frame_pos, cmds |-> cmds]

\* A rewind that evicts nothing.
remove_placed_after_none(s, depths, frame) == s

\* An eviction that drops the children from the map and does no more.
remove_placed_after_map_only(s, depths, frame) ==
    [s EXCEPT !.children = [d \in DOMAIN s.children \ depths |-> s.children[d]]]

\* run_goto: the children placed after the destination frame are removed,
\* in the order of the depth map
RECURSIVE remove_placed_after(_, _, _)
remove_placed_after(s, depths, frame) ==
    IF depths = {} THEN s
    ELSE LET d == CHOOSE x \in depths : \A y \in depths : x <= y
             child == s.children[d]
         IN remove_placed_after(
                remove_child_from_exec_list(
                    [s EXCEPT !.children = MapRemove(@, d)], child),
                depths \ {d}, frame)

\* run_goto_command of run_goto
run_goto_command(s, params, is_rewind) ==
    LET prev_child == MapGet(s.children, params.depth)
    IN IF prev_child # NoNode /\ (GotoPlaceObject_id(params) = 0 \/ is_rewind)
       THEN apply_place_object(s, prev_child, params.fields)
       ELSE LET child == NewNode(s)
                placed_on(s1) ==
                    IF can_instantiate(s, GotoPlaceObject_id(params))
                    THEN [s1 EXCEPT !.nodes[child].place_frame = params.frame]
                    ELSE s1
            IN placed_on(instantiate_child(s, GotoPlaceObject_id(params), params.depth,
                                           params.fields,
                                           modifies_original_item(params)))

RECURSIVE run_goto_commands(_, _, _)
run_goto_commands(s, cmds, is_rewind) ==
    IF cmds = <<>> THEN s
    ELSE run_goto_commands(run_goto_command(s, Head(cmds), is_rewind), Tail(cmds),
                           is_rewind)

\* ----------------------------------------------------- frames and gotos
RECURSIVE run_frame_internal(_, _), run_goto(_, _)

\* MovieClip::run_frame_internal past the frame counter: the tags of a frame
run_frame_body(s, run_display_actions) ==
    LET decoded(r) ==
            IF r.s.panicked THEN r.s
            ELSE IF ~r.has_stream_block
            THEN stop_audio_stream([r.s EXCEPT !.tag_stream_pos = r.pos])
            ELSE [r.s EXCEPT !.tag_stream_pos = r.pos]
    IN decoded(run_frame_tags(s, s.tag_stream_pos, FALSE, run_display_actions))

\* A looping step that restarts the timeline and plays frame 1 as a first
\* frame instead of seeking to it.
run_frame_internal_restart(s, run_display_actions) ==
    IF s.current_frame < total_frames
    THEN run_frame_body([s EXCEPT !.current_frame = @ + 1], run_display_actions)
    ELSE IF total_frames > 1
    THEN run_frame_body([s EXCEPT !.current_frame = 1, !.tag_stream_pos = 0],
                        run_display_actions)
    ELSE run_frame_body(stop(s), run_display_actions)

\* MovieClip::run_frame_internal
run_frame_internal(s, run_display_actions) ==
    IF s.current_frame < total_frames
    THEN run_frame_body([s EXCEPT !.current_frame = @ + 1], run_display_actions)
    ELSE IF total_frames > 1
    THEN run_goto(s, 1)
    ELSE run_frame_body(stop(s), run_display_actions)

\* MovieClip::run_goto up to the sorted goto_commands: the stream is stopped,
\* a rewind restarts the timeline and removes what was placed later, and the
\* deltas of the frames up to the destination are aggregated.
goto_deltas(s, frame) ==
    LET clamped_frame == IF frame <= total_frames THEN frame ELSE total_frames
        sorted(r, is_rewind) ==
            [s |-> r.s, frame_pos |-> r.frame_pos, is_rewind |-> is_rewind,
             clamped_frame |-> clamped_frame, goto_commands |-> sort_by_index(r.cmds)]
        aggregated(s1, is_rewind) ==
            sorted(goto_frames(s1, s1.tag_stream_pos, s1.tag_stream_pos, <<>>, 0,
                               clamped_frame, is_rewind),
                   is_rewind)
        rewound_to(s0, is_rewind) ==
            aggregated(IF is_rewind
                       THEN remove_placed_after(
                                [s0 EXCEPT !.tag_stream_pos = 0, !.current_frame = 0],
                                {d \in DOMAIN s0.children :
                                    s0.nodes[s0.children[d]].place_frame > frame},
                                frame)
                       ELSE s0,
                       is_rewind)
        stopped(s0) == rewound_to(s0, frame < s0.current_frame)
    IN stopped(stop_audio_stream(s))

\* A seek that runs the frame it ends on even when that is not the target.
run_goto_last_frame(s, frame) ==
    LET seek(r) ==
            LET is_rewind == r.is_rewind
                clamped_frame == r.clamped_frame
                hit_target_frame == r.s.current_frame = clamped_frame
                goto_commands == r.goto_commands
                placed_on_frame(s3) ==
                    IF s3.panicked THEN s3
                    ELSE run_goto_commands(
                             s3, SelectSeq(goto_commands, LAMBDA c : c.frame >= frame),
                             is_rewind)
                final_frame(s2) ==
                    IF hit_target_frame
                    THEN IF overflows(s2.current_frame - 1) /\ overflow_checks
                         THEN Panic(s2)     \* current_frame -= 1
                         ELSE run_frame_internal(
                                  [s2 EXCEPT !.current_frame = wrapping(@ - 1),
                                             !.tag_stream_pos = r.frame_pos],
                                  FALSE)
                    ELSE [s2 EXCEPT !.current_frame = clamped_frame]
            IN IF r.s.panicked THEN r.s
               ELSE placed_on_frame(final_frame(
                        run_goto_commands(
                            r.s, SelectSeq(goto_commands, LAMBDA c : c.frame < frame),
                            is_rewind)))
    IN seek(goto_deltas(s, frame))

\* MovieClip::run_goto
run_goto(s, frame) ==
    LET seek(r) ==
            LET is_rewind == r.is_rewind
                clamped_frame == r.clamped_frame
                hit_target_frame == r.s.current_frame = frame
                goto_commands == r.goto_commands
                placed_on_frame(s3) ==
                    IF s3.panicked THEN s3
                    ELSE run_goto_commands(
                             s3, SelectSeq(goto_commands, LAMBDA c : c.frame >= frame),
                             is_rewind)
                final_frame(s2) ==
                    IF hit_target_frame
                    THEN IF overflows(s2.current_frame - 1) /\ overflow_checks
                         THEN Panic(s2)     \* current_frame -= 1
                         ELSE run_frame_internal(
                                  [s2 EXCEPT !.current_frame = wrapping(@ - 1),
                                             !.tag_stream_pos = r.frame_pos],
                                  FALSE)
                    ELSE [s2 EXCEPT !.current_frame = clamped_frame]
            IN IF r.s.panicked THEN r.s
               ELSE placed_on_frame(final_frame(
                        run_goto_commands(
                            r.s, SelectSeq(goto_commands, LAMBDA c : c.frame < frame),
                            is_rewind)))
    IN seek(goto_deltas(s, frame))


\* -------------------------------------------------- the clip's operations
\* DisplayObjectBase::children: the execution list from first_child on
RECURSIVE exec_list_from(_, _, _)
exec_list_from(ns, node, fuel) ==
    IF node = NoNode \/ fuel = 0 THEN <<>>
    ELSE <<node>> \o exec_list_from(ns, ns[node].next_sibling, fuel - 1)

exec_list(s) == exec_list_from(s.nodes, s.first_child, Cardinality(DOMAIN s.nodes))

RECURSIVE for_each_child(_, _, _)
for_each_child(s, list, unloading) ==
    IF list = <<>> THEN s
    ELSE for_each_child(IF unloading THEN child_unload(s, Head(list))
                        ELSE child_run_frame(s, Head(list)),
                        Tail(list), unloading)

\* MovieClip::handle_clip_event; the result says in handled whether the
\* event was consumed.
handle_clip_event(s, event) ==
    LET own(r) == IF r.handled THEN r ELSE run_clip_event_result(r.s, event)
    IN IF propagates(event) THEN own(handle_children(s, exec_list(s), event))
       ELSE run_clip_event_result(s, event)

\* A frame run that executes the tags of a stopped clip as well.
run_frame_stopped_too(s) ==
    LET loaded(e) == IF e.panicked THEN e ELSE [e EXCEPT !.initialized = TRUE]
        event(s1) ==
            LET is_load_frame == ~s1.initialized
            IN IF is_load_frame THEN loaded(run_clip_event(s1, "Load"))
               ELSE run_clip_event(s1, "EnterFrame")
        frame(s2) ==
            IF s2.panicked THEN s2
            ELSE run_frame_internal(s2, TRUE)
        post(s3, is_load_frame) ==
            IF is_load_frame /\ ~s3.panicked THEN run_clip_postevent(s3, "Load") ELSE s3
    IN post(frame(event(for_each_child(s, exec_list(s), FALSE))), ~s.initialized)

\* A run_frame that runs the tags of the frame before it fires the event.
run_frame_tags_first(s) ==
    LET loaded(e) == IF e.panicked THEN e ELSE [e EXCEPT !.initialized = TRUE]
        event(s1) ==
            LET is_load_frame == ~s1.initialized
            IN IF s1.panicked THEN s1
               ELSE IF is_load_frame THEN loaded(run_clip_event(s1, "Load"))
               ELSE run_clip_event(s1, "EnterFrame")
        frame(s2) == IF s2.playing THEN run_frame_internal(s2, TRUE) ELSE s2
        post(s3, is_load_frame) ==
            IF is_load_frame /\ ~s3.panicked THEN run_clip_postevent(s3, "Load") ELSE s3
    IN post(event(frame(for_each_child(s, exec_list(s), FALSE))), ~s.initialized)

\* MovieClip::run_frame
run_frame(s) ==
    LET loaded(e) == IF e.panicked THEN e ELSE [e EXCEPT !.initialized = TRUE]
        event(s1) ==
            LET is_load_frame == ~s1.initialized
            IN IF is_load_frame THEN loaded(run_clip_event(s1, "Load"))
               ELSE run_clip_event(s1, "EnterFrame")
        frame(s2) ==
            IF s2.panicked THEN s2
            ELSE IF s2.playing THEN run_frame_internal(s2, TRUE)
            ELSE s2
        post(s3, is_load_frame) ==
            IF is_load_frame /\ ~s3.panicked THEN run_clip_postevent(s3, "Load") ELSE s3
    IN post(frame(event(for_each_child(s, exec_list(s), FALSE))), ~s.initialized)

\* A goto that seeks even when the clip is on the frame already.
goto_frame_seeks_always(s, frame, stop_clip) ==
    LET clamped == IF frame < 1 THEN 1 ELSE frame
        seek(s1) == run_goto(s1, clamped)
    IN seek(IF stop_clip THEN stop(s) ELSE play(s))

\* A goto_frame that always leaves the clip playing.
goto_frame_playing(s, frame, stop_clip) ==
    LET clamped == IF frame < 1 THEN 1 ELSE frame
        seek(s1) == IF clamped # s1.current_frame THEN run_goto(s1, clamped) ELSE s1
    IN seek(play(s))

\* MovieClip::goto_frame
goto_frame(s, frame, stop_clip) ==
    LET clamped == IF frame < 1 THEN 1 ELSE frame
        seek(s1) == IF clamped # s1.current_frame THEN run_goto(s1, clamped) ELSE s1
    IN seek(IF stop_clip THEN stop(s) ELSE play(s))

\* A step forward that wraps to the first frame behind the last.
next_frame_wraps(s) ==
    IF s.current_frame < total_frames THEN goto_frame(s, s.current_frame + 1, TRUE)
    ELSE goto_frame(s, 1, TRUE)

\* tag_utils::decode_tags(reader, tag_callback, ShowFrame) in actions_on_frame
RECURSIVE actions_on_frame_tags(_, _, _, _)
actions_on_frame_tags(pos, cur_frame, frame, actions) ==
    IF pos >= tag_stream_len
    THEN [pos |-> tag_stream_len, cur_frame |-> cur_frame, actions |-> actions,
          panicked |-> FALSE]
    ELSE LET tag == swf[pos + 1]
         IN IF tag.code = "ShowFrame"
            THEN [pos |-> tag_end(pos), cur_frame |-> wrapping(cur_frame + 1),
                  actions |-> actions,
                  panicked |-> (overflows(cur_frame + 1) /\ overflow_checks)]
            ELSE IF tag.code = "DoAction" /\ cur_frame = frame
            THEN \* if let Some(code) = resize_to_reader(reader, tag_len)
                 actions_on_frame_tags(tag_end(pos), cur_frame, frame,
                                       actions \o payload_slice(pos))
            ELSE actions_on_frame_tags(tag_end(pos), cur_frame, frame, actions)

\* the while loop of actions_on_frame: one frame per round
RECURSIVE actions_on_frame_frames(_, _, _, _)
actions_on_frame_frames(pos, cur_frame, frame, actions) ==
    IF cur_frame <= frame /\ pos < tag_stream_len
    THEN LET decoded(r) ==
                 IF r.panicked THEN [actions |-> r.actions, panicked |-> TRUE]
                 ELSE actions_on_frame_frames(r.pos, r.cur_frame, frame, r.actions)
         IN decoded(actions_on_frame_tags(pos, cur_frame, frame, actions))
    ELSE [actions |-> actions, panicked |-> FALSE]

\* MovieClip::actions_on_frame: the blocks it returns, and the clip it only reads
actions_on_frame(s, frame) ==
    LET collected(r) == [s |-> IF r.panicked THEN Panic(s) ELSE s, actions |-> r.actions]
    IN IF frame > 0 /\ frame <= total_frames
       THEN collected(actions_on_frame_frames(0, 1, frame, <<>>))
       ELSE [s |-> s, actions |-> <<>>]

\* MovieClip::next_frame
next_frame(s) ==
    IF s.current_frame < total_frames THEN goto_frame(s, s.current_frame + 1, TRUE)
    ELSE s

\* MovieClip::prev_frame
prev_frame(s) ==
    IF s.current_frame > 1 THEN goto_frame(s, s.current_frame - 1, TRUE)
    ELSE s

\* MovieClip::unload
unload(s) ==
    LET set_removed(s2) == IF s2.panicked THEN s2 ELSE [s2 EXCEPT !.removed = TRUE]
    IN set_removed(run_clip_event(stop_audio_stream(for_each_child(s, exec_list(s), TRUE)),
                                  "Unload"))

\* DisplayObjectBase::reset_for_movie_load
reset_for_movie_load(s) ==
    [s EXCEPT !.first_child = NoNode, !.removed = FALSE]

\* MovieClipData::replace_with_movie, the fields of the clip; the new
\* static_data.swf and total_frames are the movie's (ReplaceWithMovie).
replace_with_movie(s) ==
    [reset_for_movie_load(s) EXCEPT
        !.audio_stream_info = FALSE,
        !.frame_labels = NoLabels,
        !.tag_stream_pos = 0,
        !.playing = TRUE,           \* flags = Playing
        !.initialized = FALSE,
        !.current_frame = 0,
        !.audio_stream = None,
        !.children = EmptyMap]

\* MovieClip::post_instantiation of the clip itself.  A clip a script
\* instantiates with a registered constructor gets its object and has the
\* constructor run inside the call, when the constructor has a prototype to
\* read (prototype), and returns with nothing queued; any other clip
\* without object gets one and queues its Construct action.
post_instantiation(s, instantiated_from_avm, prototype) ==
    IF ~s.object
    THEN IF instantiated_from_avm /\ avm1_constructor
         THEN IF prototype THEN [s EXCEPT !.object = TRUE] ELSE s
         ELSE queue_actions([s EXCEPT !.object = TRUE], Self, "Construct",
                            SelectSeq(clip_actions, LAMBDA a : a.event = "Construct"),
                            FALSE)
    ELSE s

\* The movie clip a script created and passes to add_child_from_avm: it has
\* its script object, and it has run its first frame or not.
ScriptClip(ran) == [FreshNode(0, "MovieClip") EXCEPT !.initialized = ran]

\* MovieClip::add_child_from_avm with a display object the script created
add_child_from_avm(s, clip, depth) ==
    LET child == NewNode(s)
        prev_child == MapGet(s.children, depth)
        s1 == [s EXCEPT !.nodes = @ @@ (child :> clip),
                        !.children = MapInsert(@, depth, child)]
        s2 == IF prev_child # NoNode THEN remove_child_from_exec_list(s1, prev_child)
              ELSE s1
        s3 == add_child_to_exec_list(s2, child)
    IN [s3 EXCEPT !.nodes[child].parent = TRUE,
                  !.nodes[child].place_frame = 0,
                  !.nodes[child].depth = depth]

\* MovieClip::remove_child_from_avm: the node the depth map holds at the
\* depth of the passed child is removed
remove_child_from_avm(s, child) ==
    LET depth == s.nodes[child].depth
    IN IF depth \in DOMAIN s.children
       THEN remove_child_from_exec_list(
                [s EXCEPT !.children = MapRemove(@, depth)], s.children[depth])
       ELSE s

\* MovieClip::swap_child_to_depth
swap_child_to_depth(s, child, depth) ==
    LET prev_depth == s.nodes[child].depth
        prev_child == MapGet(s.children, depth)
        s1 == [s EXCEPT !.nodes[child].depth = depth,
                        !.children = MapInsert(@, depth, child)]
    IN IF prev_child # NoNode
       THEN [s1 EXCEPT !.nodes[prev_child].depth = prev_depth,
                       !.children = MapInsert(@, prev_depth, prev_child)]
       ELSE [s1 EXCEPT !.children = MapRemove(@, prev_depth)]

\* An insert that overwrites the frame of a label the map already has.
frame_label_overwrite(static_data, tag, cur_frame) ==
    [static_data EXCEPT !.frame_labels =
        (to_ascii_lowercase(tag.label) :> cur_frame) @@ @]

\* MovieClipData::frame_label, on preload's copy of the static data
frame_label(static_data, tag, cur_frame) ==
    LET label == to_ascii_lowercase(tag.label)
    IN IF label \notin DOMAIN static_data.frame_labels
       THEN [static_data EXCEPT !.frame_labels = (label :> cur_frame) @@ @]
       ELSE static_data    \* "Duplicated frame label"

\* Option<FrameNumber>
NoFrame == <<>>

Some(frame) == <<frame>>

\* MovieClip::frame_label_to_number
frame_label_to_number(s, name) ==
    LET label == to_ascii_lowercase(name)
    IN IF label \in DOMAIN s.frame_labels THEN Some(s.frame_labels[label]) ELSE NoFrame

\* ------------------------------------------------- bytes of the tag stream
\* The tags of init-action timelines as the bytes of the movie, for the
\* slices that do_init_action and do_abc cut out of it.
\* swf::TagCode as u16
tag_code_number(code) ==
    CASE code = "End"          -> 0
      [] code = "ShowFrame"    -> 1
      [] code = "DoInitAction" -> 59
      [] code = "DoAbc"        -> 82

\* The byte of a character of tag data.
char_code(c) ==
    CASE c = "i" -> 105
      [] c = "j" -> 106
      [] c = "x" -> 120

\* The payload of a tag: DoInitAction is a sprite id (u16, 0) and the code,
\* DoAbc is the flags (u32, 0), the name (empty, its NUL) and the ABC file.
tag_payload(tag) ==
    CASE tag.code \in {"End", "ShowFrame"} -> <<>>
      [] tag.code = "DoInitAction" -> <<0, 0, char_code(tag.data)>>
      [] tag.code = "DoAbc"        -> <<0, 0, 0, 0, 0, char_code(tag.data)>>

\* A tag with its short header: the u16 (code << 6) | length, little endian.
tag_bytes(tag) ==
    LET word == tag_code_number(tag.code) * 64 + Len(tag_payload(tag))
    IN <<word % 256, word \div 256>> \o tag_payload(tag)

\* The bytes of the movie from the tag at position pos on.
RECURSIVE bytes_from(_)
bytes_from(pos) ==
    IF pos >= Len(swf) THEN <<>>
    ELSE tag_bytes(swf[pos + 1]) \o bytes_from(pos + 1)

\* SwfSlice::resize_to_reader(reader, tag_len), for the reader of the tag at
\* pos that has read `read` bytes of its payload: the slice starts at the
\* reader's position and is tag_len bytes long, so that it ends `read` bytes
\* behind the tag; None unless it ends inside the movie.
resize_to_reader(pos, read) ==
    LET payload == tag_payload(swf[pos + 1])
    IN IF read < Len(bytes_from(pos + 1))
       THEN Some(SubSeq(payload, read + 1, Len(payload))
                 \o SubSeq(bytes_from(pos + 1), 1, read))
       ELSE <<>>

\* Avm1::run_stack_frame_for_init_action: the script runtime runs the code
\* against the clip
run_stack_frame_for_init_action(s, clip, code) ==
    [s EXCEPT !.avm1_runs = Append(@, [clip |-> clip, code |-> code])]

\* MovieClip::do_init_action of the tag at pos: the slice is cut behind the
\* sprite id; without a slice the handler fails and nothing runs
do_init_action(s, pos) ==
    LET run(slice) == IF slice = <<>> THEN s
                      ELSE run_stack_frame_for_init_action(s, Self, slice[1])
    IN run(resize_to_reader(pos, 2))

\* MovieClip::do_abc of the tag at pos: the slice is cut behind the flags and
\* the name; without a slice the handler fails and nothing is queued
do_abc(s, pos) ==
    LET queue(slice) == IF slice = <<>> THEN s
                        ELSE queue_actions(s, Self, "DoABC", slice[1], FALSE)
    IN queue(resize_to_reader(pos, 5))

\* preload's scan: the clip and the copy of the static data it collects
\* the frame labels and the stream header in
Scan(s, static_data) == [s |-> s, static_data |-> static_data]

\* A preload that hands every stream block to the audio backend.
preload_tag_every_block(s, pos, cur_frame, static_data) ==
    CASE swf[pos + 1].code = "SoundStreamHead" ->
            Scan([s EXCEPT !.audio_calls =
                    Append(@, [call |-> "preload_sound_stream_head", frame |-> cur_frame])],
                 [static_data EXCEPT !.audio_stream_info = TRUE])
      [] swf[pos + 1].code = "SoundStreamBlock" ->
            Scan([s EXCEPT !.audio_calls =
                    Append(@, [call |-> "preload_sound_stream_block", frame |-> cur_frame])],
                 static_data)
      [] OTHER -> Scan(s, static_data)

\* the tag_callback of preload for the tag at pos, past its slice;
\* static_data is preload's copy of the static data, cur_frame the scan's
\* frame counter
preload_tag(s, pos, cur_frame, static_data) ==
    LET tag == swf[pos + 1]
    IN CASE tag.code = "DefineFont4" -> Scan(Panic(s), static_data)  \* unimplemented!()
         [] tag.code = "DoInitAction" -> Scan(do_init_action(s, pos), static_data)
         [] tag.code = "DoAbc" -> Scan(do_abc(s, pos), static_data)
         [] tag.code = "FrameLabel" -> Scan(s, frame_label(static_data, tag, cur_frame))
         [] tag.code = "DefineShape" ->
               Scan([s EXCEPT !.library = (tag.id :> "Graphic") @@ @], static_data)
         [] tag.code = "SoundStreamHead" ->
               Scan([s EXCEPT !.audio_calls =
                       Append(@, [call |-> "preload_sound_stream_head",
                                  frame |-> cur_frame])],
                    [static_data EXCEPT !.audio_stream_info = TRUE])
         [] tag.code = "SoundStreamBlock" /\ static_data.audio_stream_info ->
               Scan([s EXCEPT !.audio_calls =
                       Append(@, [call |-> "preload_sound_stream_block",
                                  frame |-> cur_frame])],
                    static_data)
         [] tag.code = "ShowFrame" /\ overflows(cur_frame + 1) /\ overflow_checks ->
               Scan(Panic(s), static_data)    \* preload_show_frame: *cur_frame += 1
         [] OTHER -> Scan(s, static_data)

\* tag_utils::decode_tags(reader, tag_callback, End) in preload
RECURSIVE preload_tags(_, _, _, _)
preload_tags(s, pos, cur_frame, static_data) ==
    IF pos >= tag_stream_len THEN Scan(s, static_data)
    ELSE LET tag == swf[pos + 1]
             next(r) ==
                 IF tag.code = "End" \/ r.s.panicked THEN r
                 ELSE preload_tags(r.s, tag_end(pos),
                                   IF tag.code = "ShowFrame" THEN wrapping(cur_frame + 1)
                                   ELSE cur_frame,
                                   r.static_data)
         IN IF tag.code = "Unknown"
            THEN preload_tags(s, tag_end(pos), cur_frame, static_data)
            ELSE IF tag_end(pos) > tag_stream_len
            THEN Scan(Panic(s), static_data)
            ELSE next(preload_tag(s, pos, cur_frame, static_data))

\* MovieClip::preload: the copy of the static data becomes the clip's when
\* the scan is over, and is lost when the scan panics
preload(s) ==
    LET done(r) ==
            IF r.s.panicked THEN r.s
            ELSE IF r.static_data.audio_stream_info
            THEN [r.s EXCEPT !.audio_stream_info = TRUE,
                             !.frame_labels = r.static_data.frame_labels,
                             !.audio_calls =
                                 Append(@, [call |-> "preload_sound_stream_end"])]
            ELSE [r.s EXCEPT !.audio_stream_info = FALSE,
                             !.frame_labels = r.static_data.frame_labels]
    IN done(preload_tags(s, s.tag_stream_pos, 1,
                         [audio_stream_info |-> s.audio_stream_info,
                          frame_labels |-> s.frame_labels]))

\* ------------------------------------------------------------ collector
\* The nodes the tracing collector keeps: those reachable from the depth map
\* and the execution list through the sibling links.
RECURSIVE reachable_from(_, _)
reachable_from(ns, seen) ==
    LET more == {n \in DOMAIN ns :
                   \E m \in seen : n \in {ns[m].prev_sibling, ns[m].next_sibling}}
    IN IF more \subseteq seen THEN seen ELSE reachable_from(ns, seen \cup more)

live_nodes(s) ==
    reachable_from(s.nodes,
        ({s.children[d] : d \in DOMAIN s.children} \cup {s.first_child}) \ {NoNode})

\* A node's name is its address: the collector compacts the live nodes,
\* those of the depth map first and in its order.
new_name(s, n) ==
    LET key(m) == IF \E d \in DOMAIN s.children : s.children[d] = m
                  THEN CHOOSE d \in DOMAIN s.children :
                          s.children[d] = m /\ \A e \in DOMAIN s.children :
                                                  s.children[e] = m => d <= e
                  ELSE 100 + m
    IN IF n = NoNode THEN NoNode
       ELSE 1 + Cardinality({m \in live_nodes(s) : key(m) < key(n)})

collect(s) ==
    LET live == live_nodes(s)
        old(k) == CHOOSE n \in live : new_name(s, n) = k
    IN [s EXCEPT
          !.nodes = [k \in 1..Cardinality(live) |->
                       [s.nodes[old(k)] EXCEPT
                           !.unloaded = 0,
                           !.prev_sibling = new_name(s, @),
                           !.next_sibling = new_name(s, @)]],
          !.children = [d \in DOMAIN s.children |-> new_name(s, s.children[d])],
          !.first_child = new_name(s, @)]

\* The state an operation starts from: the queue drained, the garbage gone,
\* no unload counted yet.
Begin ==
    [collect(Clip) EXCEPT !.action_queue = <<>>, !.audio_calls = <<>>, !.avm1_runs = <<>>,
                        !.load_calls = <<>>]

\* A script keeps the display object it passes to a call alive: the
\* collector treats it as a root, here an entry of the depth map behind the
\* last depth.
HeldDepth == 1 + Cardinality(Depths)

Hold(child) ==
    [collect([Clip EXCEPT !.children = MapInsert(@, HeldDepth, child)])
        EXCEPT !.action_queue = <<>>, !.audio_calls = <<>>, !.avm1_runs = <<>>,
                        !.load_calls = <<>>]

\* the address of the held display object after the collection
held_child(child) == Hold(child).children[HeldDepth]

\* The state a call of a script starts from: the queue drained, the garbage
\* gone but for the display object the script passes.
Held(child) == [Hold(child) EXCEPT !.children = MapRemove(@, HeldDepth)]

\* the display objects a script can pass as a child of the clip: the movie
\* clips whose parent the clip is, those the last operation evicted among
\* them
HeldChildren == {n \in DOMAIN nodes : nodes[n].parent /\ nodes[n].kind = "MovieClip"}

\* the display object is no longer in the depth map
evicted(child) == \A d \in DOMAIN children : children[d] # child

\* ---------------------------------------------------------------- actions
NoArgs ==
    [frame |-> 0, stop |-> FALSE, depth |-> 0, label |-> <<>>, result |-> <<>>,
     event |-> None, handled |-> FALSE,
     actions |-> <<>>, child |-> NoNode, evicted |-> FALSE,
     initialized |-> FALSE, instantiated_from_avm |-> FALSE, prototype |-> FALSE]

Store(r, op, args) ==
    /\ library' = r.library
    /\ audio_stream_info' = r.audio_stream_info
    /\ frame_labels' = r.frame_labels
    /\ current_frame' = r.current_frame
    /\ tag_stream_pos' = r.tag_stream_pos
    /\ audio_stream' = r.audio_stream
    /\ children' = r.children
    /\ first_child' = r.first_child
    /\ nodes' = r.nodes
    /\ object' = r.object
    /\ playing' = r.playing
    /\ initialized' = r.initialized
    /\ removed' = r.removed
    /\ action_queue' = r.action_queue
    /\ audio_calls' = r.audio_calls
    /\ avm1_runs' = r.avm1_runs
    /\ load_calls' = r.load_calls
    /\ panicked' = r.panicked
    /\ last' = [op |-> op, args |-> args, from |-> current_frame,
                ran |-> (last.ran \/ op = "run_frame")]

\* An operation that leaves the movie alone.
Commit(r, op, args) ==
    /\ Store(r, op, args)
    /\ UNCHANGED <<swf, truncated, total_frames, swf_version, clip_actions,
                   avm1_constructor, audio_started, overflow_checks>>

\* The operations the environment calls on a preloaded clip.  Two kinds of
\* clip get one more operation and are then left alone: a clip that was just
\* unloaded, and a clip whose creator has not called post_instantiation.  A
\* clip is followed up to the first call in which a script passed a display
\* object that had been evicted, and no further.
Running ==
    /\ preloaded /\ ~panicked
    /\ ~last.args.evicted
    /\ (removed => last.op = "unload")
    /\ (~object => last.op \in {"preload", "set_avm1_constructor"})

Preload ==
    /\ ~preloaded /\ ~panicked
    /\ preloaded' = TRUE
    /\ Commit(preload(Begin), "preload", NoArgs)

\* post_instantiation by the player or by a script; reading the prototype
\* of a registered constructor may fail
PostInstantiation ==
    /\ Running /\ ~object
    /\ UNCHANGED preloaded
    /\ \E instantiated_from_avm \in BOOLEAN,
          prototype \in {p \in BOOLEAN : ~p => avm1_constructor} :
          Commit(post_instantiation(Begin, instantiated_from_avm, prototype),
                 "post_instantiation",
                 [NoArgs EXCEPT !.instantiated_from_avm = instantiated_from_avm,
                                !.prototype = prototype])

RunFrame ==
    /\ Running
    /\ UNCHANGED preloaded
    /\ Commit(run_frame(Begin), "run_frame", NoArgs)

GotoFrame ==
    /\ Running
    /\ UNCHANGED preloaded
    /\ \E frame \in 1..(total_frames + 1), stop_clip \in BOOLEAN :
          Commit(goto_frame(Begin, frame, stop_clip), "goto_frame",
                 [NoArgs EXCEPT !.frame = frame, !.stop = stop_clip])

Unload ==
    /\ Running
    /\ UNCHANGED preloaded
    /\ Commit(unload(Begin), "unload", NoArgs)

\* MovieClip::stop
Stop ==
    /\ Running
    /\ UNCHANGED preloaded
    /\ Commit(stop(Begin), "stop", NoArgs)

\* MovieClip::play
Play ==
    /\ Running
    /\ UNCHANGED preloaded
    /\ Commit(play(Begin), "play", NoArgs)

\* MovieClip::run_goto called from outside the clip, with any of the first
\* frame numbers, 0 among them
RunGoto ==
    /\ Running
    /\ UNCHANGED preloaded
    /\ \E frame \in {f \in 0..(MaxFrames + 1) : f <= total_frames + 1} :
          Commit(run_goto(Begin, frame), "run_goto", [NoArgs EXCEPT !.frame = frame])

AddChildFromAvm ==
    /\ Running
    /\ UNCHANGED preloaded
    /\ \E depth \in AvmDepths, ran \in BOOLEAN :
          Commit(add_child_from_avm(Begin, ScriptClip(ran), depth), "add_child_from_avm",
                 [NoArgs EXCEPT !.depth = depth, !.initialized = ran])

\* run_frame while the playhead is among the first frames or the last two
\* frame numbers
RunFrameAtEnds ==
    /\ current_frame <= MaxFrames \/ current_frame >= MaxFrameNumber - 1
    /\ RunFrame

\* goto_frame to one of the first frames or of the last two frame numbers
GotoFarFrame ==
    /\ Running
    /\ UNCHANGED preloaded
    /\ \E frame \in (1..MaxFrames) \cup {MaxFrameNumber - 1, MaxFrameNumber},
          stop_clip \in BOOLEAN :
          Commit(goto_frame(Begin, frame, stop_clip), "goto_frame",
                 [NoArgs EXCEPT !.frame = frame, !.stop = stop_clip])

RemoveChildFromAvm ==
    /\ Running
    /\ UNCHANGED preloaded
    /\ \E child \in HeldChildren :
          Commit(remove_child_from_avm(Held(child), held_child(child)),
                 "remove_child_from_avm",
                 [NoArgs EXCEPT !.child = held_child(child),
                                !.depth = nodes[child].depth,
                                !.evicted = evicted(child)])

SwapChildToDepth ==
    /\ Running
    /\ UNCHANGED preloaded
    /\ \E child \in HeldChildren, depth \in Depths :
          Commit(swap_child_to_depth(Held(child), held_child(child), depth),
                 "swap_child_to_depth",
                 [NoArgs EXCEPT !.child = held_child(child), !.depth = depth,
                                !.evicted = evicted(child)])

FrameLabelToNumber ==
    /\ Running
    /\ UNCHANGED preloaded
    /\ \E label \in LabelNames :
          Commit(Begin, "frame_label_to_number",
                 [NoArgs EXCEPT !.label = label,
                                !.result = frame_label_to_number(Begin, label)])

\* A loader replaces the movie; it preloads the new movie next.
ReplaceWithMovie ==
    /\ Running
    /\ \E movie \in MovieArgs :
          LET loaded == IF movie = <<>> THEN EmptyMovie ELSE movie[1]
          IN /\ swf' = loaded
             /\ total_frames' = CountCode(loaded, "ShowFrame")
             /\ truncated' = FALSE
    /\ preloaded' = FALSE
    /\ UNCHANGED <<swf_version, clip_actions, avm1_constructor, audio_started,
                   overflow_checks>>
    /\ Store(replace_with_movie(Begin), "replace_with_movie", NoArgs)

\* MovieClip::set_clip_actions on the clip itself
SetClipActions ==
    /\ Running
    /\ \E actions \in ClipActionArgs : clip_actions' = actions
    /\ Store(Begin, "set_clip_actions", NoArgs)
    /\ UNCHANGED <<swf, truncated, total_frames, swf_version, avm1_constructor,
                   audio_started, overflow_checks, preloaded>>

\* MovieClip::set_avm1_constructor
SetAvm1Constructor ==
    /\ Running
    /\ \E prototype \in BOOLEAN : avm1_constructor' = prototype
    /\ Store(Begin, "set_avm1_constructor", NoArgs)
    /\ UNCHANGED <<swf, truncated, total_frames, swf_version, clip_actions,
                   audio_started, overflow_checks, preloaded>>

\* MovieClip::run_clip_event called from outside the clip
RunClipEvent ==
    /\ Running
    /\ UNCHANGED preloaded
    /\ \E event \in AnyClipEvents :
          Commit(run_clip_event(Begin, event), "run_clip_event",
                 [NoArgs EXCEPT !.event = event])

\* MovieClip::set_clip_actions on a sprite the clip shows
ChildSetClipActions ==
    /\ Running
    /\ UNCHANGED preloaded
    /\ \E d \in DOMAIN children, actions \in ChildClipActions :
          /\ nodes[children[d]].kind = "MovieClip"
          /\ Commit([Begin EXCEPT !.nodes[Begin.children[d]].clip_actions = actions],
                    "set_clip_actions", [NoArgs EXCEPT !.depth = d])

HandleClipEvent ==
    /\ Running
    /\ UNCHANGED preloaded
    /\ \E event \in ClipEvents :
          LET r == handle_clip_event(Begin, event)
          IN Commit(r.s, "handle_clip_event",
                    [NoArgs EXCEPT !.event = event, !.handled = r.handled])

NextFrame ==
    /\ Running
    /\ UNCHANGED preloaded
    /\ Commit(next_frame(Begin), "next_frame", NoArgs)

ActionsOnFrame ==
    /\ Running
    /\ UNCHANGED preloaded
    /\ \E frame \in 0..(MaxFrames + 1) :
          LET r == actions_on_frame(Begin, frame)
          IN Commit(r.s, "actions_on_frame",
                    [NoArgs EXCEPT !.frame = frame, !.actions = r.actions])

PrevFrame ==
    /\ Running
    /\ UNCHANGED preloaded
    /\ Commit(prev_frame(Begin), "prev_frame", NoArgs)

\* the player driving the timeline
Next ==
    \/ Preload
    \/ PostInstantiation
    \/ RunFrame
    \/ GotoFrame
    \/ Stop
    \/ Play
    \/ Unload

\* the player and a caller that seeks the clip directly
NextPublic ==
    \/ Next
    \/ RunGoto

\* the player and a caller that sets the clip's actions and constructor and
\* fires its events
NextEvents ==
    \/ Next
    \/ SetClipActions
    \/ SetAvm1Constructor
    \/ RunClipEvent

\* the player and a script that resolves frame labels
NextLabels ==
    \/ Next
    \/ FrameLabelToNumber

\* the player handing key events to the clip and its sprites
NextKeys ==
    \/ Next
    \/ ChildSetClipActions
    \/ HandleClipEvent

\* the player and a script that steps through the frames
NextStep ==
    \/ Next
    \/ NextFrame
    \/ PrevFrame

\* the player and a script that calls the actions of a frame
NextCall ==
    \/ Next
    \/ ActionsOnFrame

\* the player and a caller that seeks, under a header of any frame count
NextWide ==
    \/ Preload
    \/ PostInstantiation
    \/ RunFrameAtEnds
    \/ GotoFarFrame
    \/ RunGoto
    \/ Unload

\* the player and a loader
NextLoad ==
    \/ Next
    \/ ReplaceWithMovie

\* the player and a script that attaches clips
NextAvm ==
    \/ Next
    \/ AddChildFromAvm

\* the player and a script that adds, removes and swaps children
NextScript ==
    \/ NextAvm
    \/ RemoveChildFromAvm
    \/ SwapChildToDepth

\* MovieClip::new_with_data
NewWithData ==
    /\ avm1_constructor = FALSE
    /\ library = Library0
    /\ audio_stream_info = FALSE
    /\ frame_labels = NoLabels
    /\ preloaded = FALSE
    /\ current_frame = 0
    /\ tag_stream_pos = 0
    /\ audio_stream = None
    /\ children = EmptyMap
    /\ first_child = NoNode
    /\ nodes = EmptyMap
    /\ object = FALSE
    /\ playing = TRUE
    /\ initialized = FALSE
    /\ removed = FALSE
    /\ action_queue = <<>>
    /\ audio_calls = <<>>
    /\ avm1_runs = <<>>
    /\ load_calls = <<>>
    /\ panicked = FALSE
    /\ last = [op |-> "new", args |-> NoArgs, from |-> 0, ran |-> FALSE]

\* MovieClip::new_with_data in a build with overflow checks.  The
\* specifications that start here have a header of at most MaxFrames frames
\* and no call of run_goto from outside the clip, so that no FrameNumber sum
\* or difference leaves the 16 bits and a build without the checks takes the
\* same steps; the specifications with such a header or such a call start
\* in either build.
Constructed ==
    /\ overflow_checks = TRUE
    /\ NewWithData

\* a well-formed movie of the newest version: the header counts the frames
\* of the timeline; the audio backend may refuse to start a stream
Init ==
    /\ swf \in Timelines
    /\ total_frames = CountCode(swf, "ShowFrame")
    /\ truncated = FALSE
    /\ swf_version \in {v \in SwfVersions : v >= 6}
    /\ clip_actions = ClipActions0
    /\ audio_started \in {a \in BOOLEAN : ~a => HasCode(swf, "SoundStreamBlock")}
    /\ Constructed

\* a well-formed movie of any version with fewer control tags, the clip with
\* or without clip actions
InitAvm ==
    /\ swf \in AvmTimelines
    /\ total_frames = CountCode(swf, "ShowFrame")
    /\ truncated = FALSE
    /\ swf_version \in SwfVersions
    /\ clip_actions \in {<<>>, ClipActions0}
    /\ audio_started = TRUE
    /\ Constructed

\* a well-formed movie whose frames hold frame labels
InitLabels ==
    /\ swf \in LabelTimelines
    /\ total_frames = CountCode(swf, "ShowFrame")
    /\ truncated = FALSE
    /\ swf_version \in {v \in SwfVersions : v >= 6}
    /\ clip_actions = ClipActions0
    /\ audio_started = TRUE
    /\ Constructed

\* a well-formed movie that places and removes at one depth
InitRemove ==
    /\ swf \in RemoveTimelines
    /\ total_frames = CountCode(swf, "ShowFrame")
    /\ truncated = FALSE
    /\ swf_version \in {v \in SwfVersions : v >= 6}
    /\ clip_actions = ClipActions0
    /\ audio_started = TRUE
    /\ Constructed

\* a movie whose stream headers and stream blocks come in any order
InitSound ==
    /\ swf \in SoundStreams
    /\ total_frames = CountCode(swf, "ShowFrame")
    /\ truncated = FALSE
    /\ swf_version \in {v \in SwfVersions : v >= 6}
    /\ clip_actions = ClipActions0
    /\ audio_started = TRUE
    /\ Constructed

\* a well-formed movie with init actions and ABC blocks
InitInitActions ==
    /\ swf \in InitActionTimelines
    /\ total_frames = CountCode(swf, "ShowFrame")
    /\ truncated = FALSE
    /\ swf_version \in {v \in SwfVersions : v >= 6}
    /\ clip_actions = ClipActions0
    /\ audio_started = TRUE
    /\ Constructed

\* a well-formed movie that shows sprites, the clip with or without handlers
\* of key events
InitKeys ==
    /\ swf \in KeyTimelines
    /\ total_frames = CountCode(swf, "ShowFrame")
    /\ truncated = FALSE
    /\ swf_version \in SwfVersions
    /\ clip_actions \in {<<>>, KeyClipActions}
    /\ audio_started = TRUE
    /\ Constructed

\* any tag stream under any header
InitAnyStream ==
    /\ swf \in SeqsUpTo(AnyTags, MaxStream)
    /\ truncated \in {t \in BOOLEAN : t => swf # <<>>}
    /\ total_frames \in 0..MaxFrames
    /\ swf_version \in {v \in SwfVersions : v >= 6}
    /\ clip_actions = ClipActions0
    /\ audio_started = TRUE
    /\ Constructed

Spec == Init /\ [][Next]_vars

\* Timelines that show a sprite, remove it, run an action and stream sound.
PublicTags ==
    { PlaceObject("Place", 2, 1, [NoFields EXCEPT !.matrix = "M1"]),
      RemoveObject(1), DoAction("a"), SoundStreamBlock }

PublicTimelines ==
    {Timeline(body) : body \in FramesOf(PublicTags, MaxFrames, MaxTags) \ {<<>>}}

\* a well-formed movie in a build with or without overflow checks
InitPublic ==
    /\ swf \in PublicTimelines
    /\ total_frames = CountCode(swf, "ShowFrame")
    /\ truncated = FALSE
    /\ swf_version \in {v \in SwfVersions : v >= 6}
    /\ clip_actions = ClipActions0
    /\ audio_started = TRUE
    /\ overflow_checks \in BOOLEAN
    /\ NewWithData

SpecPublic == InitPublic /\ [][NextPublic]_vars

SpecEvents == InitKeys /\ [][NextEvents]_vars

SpecAvm == InitAvm /\ [][NextAvm]_vars

SpecAnyStream == InitAnyStream /\ [][Next]_vars

SpecLabels == InitLabels /\ [][NextLabels]_vars

SpecLoad == Init /\ [][NextLoad]_vars

SpecRemove == InitRemove /\ [][NextAvm]_vars

SpecSound == InitSound /\ [][Next]_vars

SpecStep == Init /\ [][NextStep]_vars

\* Short timelines that place a sprite at and remove from one depth, for a
\* script to add to, remove from and swap in.
ScriptTags ==
    { PlaceObject("Place", 2, 1, [NoFields EXCEPT !.matrix = "M1"]), RemoveObject(1) }

ScriptTimelines ==
    {Timeline(body) : body \in FramesOf(ScriptTags, MaxKeyFrames, MaxTags) \ {<<>>}}

InitScript ==
    /\ swf \in ScriptTimelines
    /\ total_frames = CountCode(swf, "ShowFrame")
    /\ truncated = FALSE
    /\ swf_version \in {v \in SwfVersions : v >= 6}
    /\ clip_actions = ClipActions0
    /\ audio_started = TRUE
    /\ Constructed

SpecScript == InitScript /\ [][NextScript]_vars

\* Short timelines with sound, under a header that counts their frames or
\* declares the largest frame count, in a build with or without overflow
\* checks.
WideTags == {SoundStreamBlock, DoAction("a")}

WideTimelines ==
    {Timeline(body) : body \in FramesOf(WideTags, MaxKeyFrames, MaxTags) \ {<<>>}}

InitWide ==
    /\ swf \in WideTimelines
    /\ total_frames \in {CountCode(swf, "ShowFrame"), MaxFrameNumber}
    /\ truncated = FALSE
    /\ swf_version \in {v \in SwfVersions : v >= 6}
    /\ clip_actions = ClipActions0
    /\ audio_started = TRUE
    /\ overflow_checks \in BOOLEAN
    /\ NewWithData

SpecWide == InitWide /\ [][NextWide]_vars

\* Frames of actions with distinct payloads, and a child to tell the display
\* list by.
CallTags == {DoAction("a"), DoAction("b"), PlaceObject("Place", 1, 1, NoFields)}

CallTimelines == {Timeline(body) : body \in FramesOf(CallTags, MaxFrames, MaxCallTags) \ {<<>>}}

\* Streams whose last frame no ShowFrame closes: the data ends in the
\* actions of that frame, or in an End tag behind them.
UnclosedCallStreams ==
    {body \o tail : body \in FramesOf(CallTags, MaxFrames - 1, 1),
                    tail \in { <<DoAction("a")>>, <<DoAction("a"), DoAction("b")>>,
                               <<DoAction("a"), EndTag>> }}

\* a movie whose header counts the frames of the stream, the unclosed last
\* frame among them
InitCall ==
    /\ swf \in CallTimelines \cup UnclosedCallStreams
    /\ total_frames = CountCode(swf, "ShowFrame")
                          + (IF swf \in UnclosedCallStreams THEN 1 ELSE 0)
    /\ truncated = FALSE
    /\ swf_version \in {v \in SwfVersions : v >= 6}
    /\ clip_actions = ClipActions0
    /\ audio_started = TRUE
    /\ Constructed

SpecCall == InitCall /\ [][NextCall]_vars

\* Timelines that place at one depth only, up to three times: a character
\* that stays, and on its way a seek meets a second character of the library
\* and a character the library lacks.
SeekTags ==
    { PlaceObject("Place", 1, 1, NoFields),
      PlaceObject("Place", 2, 1, [NoFields EXCEPT !.matrix = "M1"]),
      PlaceObject("Place", 3, 1, NoFields) }

SeekTimelines ==
    {Timeline(body) : body \in FramesOf(SeekTags, MaxFrames, MaxSeekTags) \ {<<>>}}

InitSeek ==
    /\ swf \in SeekTimelines
    /\ total_frames = CountCode(swf, "ShowFrame")
    /\ truncated = FALSE
    /\ swf_version \in {v \in SwfVersions : v >= 6}
    /\ clip_actions = ClipActions0
    /\ audio_started = TRUE
    /\ Constructed

SpecSeek == InitSeek /\ [][Next]_vars

SpecKeys == InitKeys /\ [][NextKeys]_vars

SpecInitActions == InitInitActions /\ [][Next]_vars

\* ----------------------------------------------------- observed behaviour
\* The display list: what each depth holds.
display(s) ==
    [d \in DOMAIN s.children |->
        [id |-> s.nodes[s.children[d]].id,
         kind |-> s.nodes[s.children[d]].kind,
         place_frame |-> s.nodes[s.children[d]].place_frame,
         props |-> s.nodes[s.children[d]].props]]

\* The clip as it is before its first frame, with the stage empty.
rewound(s) ==
    [s EXCEPT !.current_frame = 0, !.tag_stream_pos = 0, !.audio_stream = None,
              !.children = EmptyMap, !.first_child = NoNode, !.nodes = EmptyMap,
              !.action_queue = <<>>, !.audio_calls = <<>>]

\* Linear playback: n frames run one after the other, the queue not drained.
RECURSIVE linear(_, _)
linear(s, n) == IF n = 0 THEN s ELSE linear(run_frame_internal(s, TRUE), n - 1)

\* The frame the i-th tag of the stream belongs to.
frame_of(i) == 1 + Cardinality({j \in 1..(i - 1) : swf[j].code = "ShowFrame"})

\* The tag places a character (Place or Replace with a non-zero id) at depth d
\* or removes the child of depth d.
displaces(tag, d) ==
    \/ tag.code = "RemoveObject" /\ tag.depth = d
    \/ /\ tag.code = "PlaceObject" /\ tag.depth = d
       /\ tag.action \in {"Place", "Replace"} /\ tag.id # 0

\* Some tag that displaces depth d lies on the timeline between the frames
\* from and to, whichever way the seek goes.
intervenes(d, from, to) ==
    \E i \in 1..Len(swf) :
        /\ displaces(swf[i], d)
        /\ IF to > from THEN from < frame_of(i) /\ frame_of(i) <= to
           ELSE to < frame_of(i) /\ frame_of(i) <= from

\* The i-th tag lies on the frames after frame from, up to frame to.
in_frames(i, from, to) == from < frame_of(i) /\ frame_of(i) <= to

\* The nodes the depth map holds, and the nodes of the execution list.
placed(s) == {s.children[d] : d \in DOMAIN s.children}

listed(s) == {exec_list(s)[i] : i \in 1..Len(exec_list(s))}

\* The tag is a Place or Replace of a character the library of s lacks.
places_missing(s, tag) ==
    /\ tag.code = "PlaceObject" /\ tag.action \in {"Place", "Replace"}
    /\ ~can_instantiate(s, tag.id)

\* The timeline holds nothing but its ShowFrame tags and the End tag.
empty_frames == \A i \in 1..Len(swf) : swf[i].code \in {"ShowFrame", "End"}

\* The clip is fresh: created and preloaded, its script object made, no frame
\* run yet.
fresh ==
    /\ preloaded /\ ~panicked /\ ~removed /\ object
    /\ current_frame = 0 /\ ~initialized /\ playing /\ children = EmptyMap

\* The call of the clip's own handler method of an event.
method_call(event) ==
    [clip |-> Self, action |-> "Method", data |-> method_name(event),
     is_unload |-> (event = "Unload")]

\* run_goto has aggregated a goto command for depth d on its way to frame.
has_goto_command(s, frame, d) == position(goto_deltas(s, frame).goto_commands, d) # 0

\* The goto command run_goto has aggregated for depth d on its way to frame.
goto_command_at(s, frame, d) ==
    LET cmds == goto_deltas(s, frame).goto_commands
    IN cmds[position(cmds, d)]

\* Every field the delta has is the value of that field of node n.
has_delta(s, n, fields) ==
    \A f \in PlaceFields : fields[f] # None => s.nodes[n].props[f] = fields[f]

\* The nodes of s that were created for depth d, whether still placed or not.
allocated_at(s, d) == {n \in DOMAIN s.nodes : s.nodes[n].depth = d}

\* Tag i places a character at depth d, tag j on a later frame, up to frame
\* F, replaces it with a character of the library, and no tag after j up to
\* frame F places at or removes from depth d.
place_then_replace(s, i, j, d, F) ==
    /\ i < j /\ frame_of(i) < frame_of(j) /\ frame_of(j) <= F
    /\ swf[i].code = "PlaceObject" /\ swf[i].action = "Place" /\ swf[i].depth = d
    /\ swf[j].code = "PlaceObject" /\ swf[j].action = "Replace" /\ swf[j].depth = d
    /\ can_instantiate(s, swf[j].id)
    /\ \A k \in (j + 1)..Len(swf) :
          frame_of(k) <= F =>
              ~(swf[k].code \in {"PlaceObject", "RemoveObject"} /\ swf[k].depth = d)

\* Frame k of the timeline holds a SoundStreamBlock.
has_block(k) == \E i \in 1..Len(swf) : frame_of(i) = k /\ swf[i].code = "SoundStreamBlock"

\* The position in the stream at which frame k begins.
frame_start(k) == Cardinality({i \in 1..Len(swf) : frame_of(i) < k})

\* The calls to the audio backend the claim expects of linear playback of
\* the frames 1..n: a start_stream on the first frame of every run of frames
\* with a SoundStreamBlock, a stop_stream on the first frame after the run.
RECURSIVE stream_calls(_)
stream_calls(n) ==
    IF n = 0 THEN <<>>
    ELSE stream_calls(n - 1) \o
         (IF has_block(n) /\ (n = 1 \/ ~has_block(n - 1))
          THEN << [call |-> "start_stream", frame |-> n + 1, pos |-> frame_start(n)] >>
          ELSE IF ~has_block(n) /\ n > 1 /\ has_block(n - 1)
          THEN << [call |-> "stop_stream", handle |-> "stream"] >>
          ELSE <<>>)

\* The actions of a queue that were queued for the clip itself.
own_actions(queue) == SelectSeq(queue, LAMBDA a : a.clip = Self)

\* What firing an event on the clip is to queue: the payloads of the clip
\* actions of the event in their order, then the call of the handler method.
event_actions(event) ==
    LET matching == SelectSeq(clip_actions, LAMBDA a : a.event = event)
        normal == [i \in 1..Len(matching) |->
                     [clip |-> Self, action |-> "Normal", data |-> matching[i].action_data,
                      is_unload |-> (event = "Unload")]]
    IN IF swf_version < 5 THEN <<>>
       ELSE IF swf_version < 6 THEN normal
       ELSE Append(normal, method_call(event))

\* Child c still is the live child of depth d.
same_instance(s, d, c) == MapGet(s.children, d) = c /\ ~s.nodes[c].removed

\* ----------------------------------------------------------------- claims

\* C1: after every frame transition performed by run_frame or goto_frame,
\* from any reachable state and for any tag stream, the clip's current_frame
\* satisfies 1 <= current_frame <= total_frames.
C1_CurrentFrameInRange ==
    (last.op \in {"run_frame", "goto_frame"} /\ ~panicked)
        => (1 <= current_frame /\ current_frame <= total_frames)

\* C6: once unload has completed the clip's audio stream handle is None, and
\* a later run_frame or goto_frame on the unloaded clip enqueues no action
\* for it.
C6_NoActionAfterUnload ==
    /\ (last.op = "unload" /\ ~panicked) => audio_stream = None
    /\ (removed /\ last.op \in {"run_frame", "goto_frame"})
          => \A i \in 1..Len(action_queue) : action_queue[i].clip # Self

\* C7: unload is idempotent.  A second unload of an unloaded clip leaves the
\* clip as it is, queues no action, calls the audio backend no more and
\* unloads no descendant again.
C7_UnloadIdempotent ==
    (preloaded /\ ~panicked /\ removed /\ last.op = "unload")
        => unload(Begin) = Begin

\* C8: a depth holds at most one node and a node sits at one depth only; a
\* node that lost its depth to a node inserted there by a timeline placement
\* or by add_child_from_avm has been unloaded and cannot be reached from
\* first_child, while the node that took the depth can.
C8_EvictedOccupantUnlinked ==
    ~panicked =>
        /\ \A d1, d2 \in DOMAIN children : children[d1] = children[d2] => d1 = d2
        /\ \A d \in DOMAIN children : nodes[children[d]].depth = d
        /\ \A n \in DOMAIN nodes \ placed(Clip) :
              /\ nodes[n].removed /\ nodes[n].unloaded = 1
              /\ n \notin listed(Clip)
              /\ nodes[n].depth \in DOMAIN children
                    => children[nodes[n].depth] \in listed(Clip)

\* A script attached a clip at the depth of a child of the timeline: the
\* evicted child is still in the heap and the new clip heads the list.
C8_Witness ==
    /\ last.op = "add_child_from_avm" /\ ~panicked
    /\ first_child = children[last.args.depth]
    /\ \E n \in DOMAIN nodes \ placed(Clip) :
          /\ nodes[n].kind = "Graphic" /\ nodes[n].depth = last.args.depth
          /\ nodes[n].place_frame > 0

\* C10: a Place or Replace of a character that is not in the library changes
\* nothing (not the children map, the execution list or the node of that
\* depth, and it does not abort), and the frame goes on with the next tag:
\* running the tags from such a tag on gives what running them from the tag
\* after it gives.
C10_MissingCharacterPlacesNothing ==
    (preloaded /\ ~panicked)
        => \A pos \in 0..(Len(swf) - 1) :
              places_missing(Begin, swf[pos + 1])
                  => /\ place_object(Begin, swf[pos + 1]) = Begin
                     /\ run_frame_tags(Begin, pos, FALSE, TRUE)
                           = run_frame_tags(Begin, pos + 1, FALSE, TRUE)

\* A frame that places a missing character at the depth of a child has run,
\* and the child placed on an earlier frame is still there.
C10_Witness ==
    /\ last.op = "run_frame" /\ current_frame = last.from + 1 /\ ~panicked
    /\ \E i \in 1..Len(swf) :
          /\ frame_of(i) = current_frame /\ places_missing(Clip, swf[i])
          /\ swf[i].depth \in DOMAIN children
          /\ nodes[children[swf[i].depth]].place_frame < current_frame
          /\ children[swf[i].depth] \in listed(Clip)

\* C11 as stated: on a fresh clip of several empty frames without clip
\* actions, goto_frame(F, stop = true) followed by one run_frame ends on frame
\* F, stopped, without children, and adds nothing to the action queue.
C11_GotoStopRunFrameQueuesNothing ==
    (fresh /\ empty_frames /\ total_frames > 1 /\ clip_actions = <<>>)
        => \A F \in 1..total_frames :
              LET r == run_frame(goto_frame(Begin, F, TRUE))
              IN /\ ~r.panicked
                 /\ r.current_frame = F /\ ~r.playing /\ r.children = EmptyMap
                 /\ r.action_queue = <<>>

\* C11 amended: the same, but in a movie of version 6 or later the run_frame
\* adds the call of the clip's onLoad method, and nothing else.
C11_GotoStopRunFrameQueuesOnLoadOnly ==
    (fresh /\ empty_frames /\ total_frames > 1 /\ clip_actions = <<>>)
        => \A F \in 1..total_frames :
              LET r == run_frame(goto_frame(Begin, F, TRUE))
              IN /\ ~r.panicked
                 /\ r.current_frame = F /\ ~r.playing /\ r.children = EmptyMap
                 /\ r.action_queue = IF swf_version >= 6 THEN <<method_call("Load")>>
                                     ELSE <<>>

\* The first run_frame of a clip of several empty frames without clip actions
\* has run on the frame a stopping goto_frame left it on.
C11_Witness ==
    /\ empty_frames /\ total_frames > 1 /\ clip_actions = <<>> /\ ~panicked
    /\ last.op = "run_frame" /\ last.from = current_frame /\ current_frame > 1
    /\ ~playing /\ initialized /\ children = EmptyMap
    /\ action_queue \in {<<>>, <<method_call("Load")>>}

\* C12: after a rewind to frame F, every depth that holds an object on frame
\* F of the timeline (placed on a frame p <= F, as linear playback from the
\* start to F has it) holds a node whose place_frame is p and which has the
\* merged delta of that depth applied.
C12_RewindRestoresPlacedObject ==
    (preloaded /\ ~panicked /\ ~removed)
        => \A F \in 1..(current_frame - 1) :
              LET lin == linear(rewound(Begin), F)
                  r == run_goto(Begin, F)
              IN \A d \in DOMAIN lin.children :
                    /\ d \in DOMAIN r.children
                    /\ r.nodes[r.children[d]].place_frame
                          = lin.nodes[lin.children[d]].place_frame
                    /\ has_goto_command(Begin, F, d)
                    /\ has_delta(r, r.children[d], goto_command_at(Begin, F, d).fields)

\* C13: a goto_frame forward from a fresh clip creates at most one node for
\* each depth; where a Place of a character is followed on a later frame, up
\* to the target, by a Replace at the same depth, the one node created for
\* the depth is the Replace's character with the Replace's frame as its
\* place_frame.
C13_FastForwardOneChildPerDepth ==
    (preloaded /\ ~panicked /\ ~removed /\ current_frame = 0 /\ children = EmptyMap)
        => \A F \in 1..total_frames : \A stop_clip \in BOOLEAN :
              LET r == goto_frame(Begin, F, stop_clip)
              IN \A d \in Depths :
                    /\ Cardinality(allocated_at(r, d)) <= 1
                    /\ \A i, j \in 1..Len(swf) :
                          place_then_replace(Begin, i, j, d, F)
                              => /\ d \in DOMAIN r.children
                                 /\ allocated_at(r, d) = {r.children[d]}
                                 /\ r.nodes[r.children[d]].id = swf[j].id
                                 /\ r.nodes[r.children[d]].place_frame = frame_of(j)

\* A goto_frame from the fresh clip has passed a Place and a later Replace of
\* one depth and left the Replace's character there.
C13_Witness ==
    /\ last.op = "goto_frame" /\ last.from = 0 /\ ~panicked
    /\ \E d \in DOMAIN children : \E i, j \in 1..Len(swf) :
          /\ place_then_replace(Clip, i, j, d, current_frame)
          /\ swf[i].id # swf[j].id
          /\ nodes[children[d]].id = swf[j].id
          /\ nodes[children[d]].place_frame = frame_of(j)
          /\ allocated_at(Clip, d) = {children[d]}

\* C14 as stated: linear playback of a preloaded clip with a stream header
\* calls start_stream once for every maximal run of frames that hold a
\* SoundStreamBlock, on the first frame of the run, and stop_stream on the
\* first frame after the run.
C14_StreamStartedOncePerRun ==
    (preloaded /\ ~panicked /\ audio_stream_info /\ current_frame = 0)
        => \A n \in 1..total_frames :
              linear(rewound(Begin), n).audio_calls = stream_calls(n)

\* The SoundStreamBlock tags of frame k.
blocks_of(k) == {i \in 1..Len(swf) : frame_of(i) = k /\ swf[i].code = "SoundStreamBlock"}

\* The calls to the audio backend of linear playback of the frames 1..n when
\* start_stream fails: the clip never holds a handle, so that every
\* SoundStreamBlock calls start_stream, and nothing is stopped.
RECURSIVE refused_stream_calls(_)
refused_stream_calls(n) ==
    IF n = 0 THEN <<>>
    ELSE refused_stream_calls(n - 1) \o
         [b \in 1..Cardinality(blocks_of(n)) |->
             [call |-> "start_stream", frame |-> n + 1, pos |-> frame_start(n)]]

\* C14 amended: every SoundStreamBlock that runs while the clip holds no
\* handle calls start_stream.  When the backend returns a handle, that is one
\* start_stream for a run of frames with a block, on its first frame, and a
\* stop_stream on the first frame after the run; when the backend refuses,
\* it is one start_stream for every block of the run and no stop_stream.
C14_StreamStartedWhileNoHandle ==
    (preloaded /\ ~panicked /\ audio_stream_info /\ current_frame = 0)
        => \A n \in 1..total_frames :
              linear(rewound(Begin), n).audio_calls
                  = IF audio_started THEN stream_calls(n) ELSE refused_stream_calls(n)

\* The backend has refused the stream on frame 1, and run_frame has played
\* frame 2 of the same run of frames with a SoundStreamBlock: it has asked
\* for the stream again and holds no handle.
C14_Witness ==
    /\ ~audio_started /\ audio_stream_info /\ ~panicked
    /\ last.op = "run_frame" /\ current_frame = 2 /\ last.from = 1
    /\ has_block(1) /\ has_block(2)
    /\ audio_stream = None
    /\ audio_calls = << [call |-> "start_stream", frame |-> 3, pos |-> frame_start(2)] >>

\* C15: the first run_frame of a clip fires Load and every later one fires
\* EnterFrame, never both; the actions a run_frame queues for the clip are
\* the payloads of the matching clip actions in their order (from version 5
\* on), then the call of the handler method (from version 6 on), then what
\* the tags of the frame queue.
C15_LoadThenEnterFrameBeforeTags ==
    (preloaded /\ ~panicked /\ object)
        => LET r == run_frame(Begin)
               event == IF last.ran THEN "EnterFrame" ELSE "Load"
               tags == IF Begin.playing THEN run_frame_internal(Begin, TRUE) ELSE Begin
           IN /\ ~r.panicked
              /\ own_actions(r.action_queue)
                    = event_actions(event) \o own_actions(tags.action_queue)

\* A later run_frame has queued an EnterFrame clip action, the onEnterFrame
\* call and the DoAction of its frame, in this order.
C15_Witness ==
    /\ last.op = "run_frame" /\ ~panicked /\ swf_version >= 6
    /\ initialized /\ current_frame > 1
    /\ own_actions(action_queue)
          = << [clip |-> Self, action |-> "Normal", data |-> "ca_enter",
                is_unload |-> FALSE],
               method_call("EnterFrame"),
               [clip |-> Self, action |-> "Normal", data |-> "a", is_unload |-> FALSE] >>

\* the two spellings of the ASCII letters of the model
AsciiLetters == { {"a", "A"}, {"b", "B"} }

eq_ignore_ascii_case(x, y) ==
    /\ Len(x) = Len(y)
    /\ \A i \in 1..Len(x) :
          x[i] = y[i] \/ \E pair \in AsciiLetters : {x[i], y[i]} = pair

\* the FrameLabel tags of the movie whose label is the name, up to ASCII case
labelled(name) ==
    {i \in DOMAIN swf : /\ swf[i].code = "FrameLabel"
                        /\ eq_ignore_ascii_case(swf[i].label, name)}

first_labelled(name) == CHOOSE i \in labelled(name) : \A j \in labelled(name) : i <= j

shown_before(i) == Cardinality({j \in 1..(i - 1) : swf[j].code = "ShowFrame"})

\* C16: after preload, frame_label_to_number of a name is one plus the number
\* of ShowFrame tags before the first FrameLabel tag whose label equals the
\* name up to the case of ASCII letters, and None when no tag has such a
\* label; a later tag with the same label does not change the answer.
C16_FrameLabelFirstWinsIgnoringAsciiCase ==
    (preloaded /\ ~panicked)
        => \A name \in LabelNames :
              frame_label_to_number(Begin, name)
                  = IF labelled(name) = {} THEN NoFrame
                    ELSE Some(1 + shown_before(first_labelled(name)))

\* a script asked for a label that two tags of different frames carry with
\* different spellings, and got the frame of the first
C16_Witness ==
    /\ last.op = "frame_label_to_number"
    /\ \E i, j \in labelled(last.args.label) :
          /\ i < j
          /\ swf[i].label # swf[j].label
          /\ swf[j].label = last.args.label
          /\ shown_before(i) < shown_before(j)
          /\ last.args.result = Some(1 + shown_before(i))

\* C17: when the clip holds an audio stream handle, replace_with_movie calls
\* stop_stream for that handle and leaves the clip without a handle.
C17_ReplaceWithMovieStopsStream ==
    (Running /\ audio_stream # None)
        => LET r == replace_with_movie(Begin)
           IN /\ r.audio_stream = None
              /\ \E i \in DOMAIN r.audio_calls :
                    r.audio_calls[i] = [call |-> "stop_stream", handle |-> audio_stream]

\* C18: after replace_with_movie the clip is at position zero and playing,
\* it has none of its children, no script object (and so no AVM data).
C18_ReplaceWithMovieKeepsNothing ==
    last.op = "replace_with_movie"
        => /\ tag_stream_pos = 0 /\ current_frame = 0 /\ playing
           /\ children = EmptyMap /\ first_child = NoNode
           /\ ~object

\* C19: a goto to a frame past total_frames ends on frame total_frames with
\* the display list a goto to the last frame gives, and runs none of the last
\* frame's other tags: no action of the clip is queued (DoAction) and no
\* stream is started (SoundStreamBlock).
C19_GotoPastEndSkipsLastFrameTags ==
    (preloaded /\ ~panicked /\ ~removed)
        => \A F \in (total_frames + 1)..(total_frames + 2), stop_clip \in BOOLEAN :
              LET r == goto_frame(Begin, F, stop_clip)
                  shown == IF current_frame < total_frames
                           THEN run_goto(Begin, total_frames) ELSE Begin
              IN /\ ~r.panicked
                 /\ r.current_frame = total_frames
                 /\ display(r) = display(shown)
                 /\ own_actions(r.action_queue) = <<>>
                 /\ \A i \in DOMAIN r.audio_calls : r.audio_calls[i].call # "start_stream"

\* a goto past the end arrived, from an earlier frame, on a last frame that
\* holds a DoAction and a SoundStreamBlock: nothing was queued or started
C19_Witness ==
    /\ last.op = "goto_frame" /\ last.args.frame > total_frames
    /\ last.from < total_frames /\ current_frame = total_frames
    /\ \E i, j \in 1..Len(swf) :
          /\ swf[i].code = "DoAction" /\ frame_of(i) = total_frames
          /\ swf[j].code = "SoundStreamBlock" /\ frame_of(j) = total_frames
    /\ own_actions(action_queue) = <<>>
    /\ audio_stream = None

\* C20: a goto to the frame after the current one queues the actions that
\* playing into that frame queues, in the same order: the clip's DoAction
\* tags and the first-frame actions of the children placed on the frame.
C20_OneFrameSeekQueuesAsPlayback ==
    (preloaded /\ ~panicked /\ ~removed /\ current_frame < total_frames)
        => \A stop_clip \in BOOLEAN :
              goto_frame(Begin, current_frame + 1, stop_clip).action_queue
                  = run_frame_internal(Begin, TRUE).action_queue

\* C21: on a clip of one frame that is on that frame, run_frame_internal only
\* stops the clip: no action is queued, and the frame, the children and the
\* position in the tag stream are as before.
C21_SingleFrameClipOnlyStops ==
    (preloaded /\ ~panicked /\ current_frame = 1 /\ total_frames = 1)
        => LET r == run_frame_internal(Begin, TRUE)
           IN /\ ~r.panicked
              /\ ~r.playing
              /\ r.current_frame = 1
              /\ r.action_queue = <<>>
              /\ r.children = Begin.children
              /\ r.tag_stream_pos = Begin.tag_stream_pos

\* C22: run_frame on a stopped clip runs the children's frames, then queues
\* the clip's Load or EnterFrame handlers, and nothing else: no DoAction is
\* queued, the frame, the position in the tag stream and the children map
\* stay as they are, and the clip stays stopped.
C22_StoppedClipRunsNoTags ==
    (preloaded /\ ~panicked /\ object /\ ~playing)
        => LET r == run_frame(Begin)
               event == IF initialized THEN "EnterFrame" ELSE "Load"
           IN /\ ~r.panicked /\ ~r.playing /\ r.initialized
              /\ r.current_frame = current_frame
              /\ r.tag_stream_pos = tag_stream_pos
              /\ r.children = Begin.children
              /\ r.action_queue
                    = for_each_child(Begin, exec_list(Begin), FALSE).action_queue
                          \o event_actions(event)

\* run_frame ran on a clip stopped before a frame that holds a DoAction, with
\* a child on the stage: the EnterFrame handler is queued last
C22_Witness ==
    /\ last.op = "run_frame" /\ ~panicked /\ ~playing
    /\ current_frame < total_frames /\ last.from = current_frame
    /\ \E i \in 1..Len(swf) : swf[i].code = "DoAction" /\ frame_of(i) = current_frame + 1
    /\ children # EmptyMap
    /\ action_queue # <<>>
    /\ action_queue[Len(action_queue)] = method_call("EnterFrame")

\* C23: a goto to a frame F before the current one starts again from the
\* head of the tag stream (it ends on frame F, behind the tags of frame F);
\* every child placed after F leaves the children map and the execution
\* list and is unloaded exactly once; every child placed on or before F, a
\* script-created child (place_frame 0) included, stays at its depth as the
\* same instance and is not unloaded.
C23_RewindEvictsPlacedAfterTarget ==
    (preloaded /\ ~panicked /\ ~removed)
        => \A F \in 1..(current_frame - 1) :
              LET r == run_goto(Begin, F)
              IN /\ ~r.panicked
                 /\ r.current_frame = F
                 /\ r.tag_stream_pos = frame_start(F + 1)
                 /\ \A d \in DOMAIN Begin.children :
                       LET c == Begin.children[d]
                       IN IF Begin.nodes[c].place_frame > F
                          THEN /\ MapGet(r.children, d) # c
                               /\ c \notin listed(r)
                               /\ r.nodes[c].removed
                               /\ r.nodes[c].unloaded = 1
                          ELSE /\ same_instance(r, d, c)
                               /\ r.nodes[c].unloaded = 0

\* a rewind unloaded a child placed after its target and kept a
\* script-created child
C23_Witness ==
    /\ last.op = "goto_frame" /\ ~panicked
    /\ last.args.frame < last.from /\ current_frame = last.args.frame
    /\ \E c \in DOMAIN nodes :
          /\ nodes[c].place_frame > current_frame
          /\ nodes[c].removed /\ nodes[c].unloaded = 1
          /\ c \notin placed(Clip)
    /\ \E d \in DOMAIN children : nodes[children[d]].place_frame = 0

\* The last tag of the frames after from, up to to, that touches depth d is
\* a RemoveObject.
removed_last(d, from, to) ==
    \E i \in 1..Len(swf) :
        /\ in_frames(i, from, to) /\ swf[i].code = "RemoveObject" /\ swf[i].depth = d
        /\ \A j \in (i + 1)..Len(swf) :
              in_frames(j, from, to) => ~(swf[j].code = "PlaceObject" /\ swf[j].depth = d)

\* C24: when the frames a goto walks over end, for depth d, with a
\* RemoveObject, the goto has no command for d and instantiates nothing at
\* d, whatever was placed there before the RemoveObject; a fast-forward
\* leaves d empty and has unloaded, once, the child that was at d; a rewind
\* leaves the child that was at d (placed on or before the target) alone.
C24_RemoveDiscardsPendingCommand ==
    (preloaded /\ ~panicked /\ ~removed)
        => \A F \in 1..total_frames, d \in Depths :
              LET from == IF F < current_frame THEN 0 ELSE current_frame
                  r == run_goto(Begin, F)
                  c == MapGet(Begin.children, d)
              IN (F # current_frame /\ removed_last(d, from, F))
                    => /\ ~r.panicked
                       /\ ~has_goto_command(Begin, F, d)
                       /\ allocated_at(r, d) \subseteq DOMAIN Begin.nodes
                       /\ IF F > current_frame
                          THEN /\ d \notin DOMAIN r.children
                               /\ c # NoNode
                                     => /\ r.nodes[c].removed /\ r.nodes[c].unloaded = 1
                                        /\ c \notin listed(r)
                          ELSE (c # NoNode /\ Begin.nodes[c].place_frame <= F)
                                  => /\ same_instance(r, d, c)
                                     /\ r.nodes[c].unloaded = 0
                                     /\ r.nodes[c].props = Begin.nodes[c].props

\* a fast-forward walked over a Place and a later RemoveObject of one depth
\* and unloaded the child that was there before
C24_Witness ==
    /\ last.op = "goto_frame" /\ ~panicked
    /\ last.from < current_frame /\ current_frame = last.args.frame
    /\ \E i, j \in 1..Len(swf) :
          /\ i < j /\ in_frames(i, last.from, current_frame)
          /\ in_frames(j, last.from, current_frame)
          /\ swf[i].code = "PlaceObject" /\ swf[i].depth = 1
          /\ swf[i].action \in {"Place", "Replace"} /\ swf[j] = RemoveObject(1)
    /\ 1 \notin DOMAIN children
    /\ \E c \in DOMAIN nodes : nodes[c].depth = 1 /\ nodes[c].unloaded = 1

\* C25: for two PlaceObject tags i < j of the movie at one depth, the command
\* of tag i merged with the command of tag j keeps the index and the depth
\* of the first; its action (with the character) and its frame are those of
\* the first when tag j is a Modify and those of the second otherwise; each
\* of the seven optional fields is the second's when the second has it, and
\* the first's otherwise.
C25_MergeKeepsIndexTakesLaterFields ==
    \A i, j \in 1..Len(swf), is_rewind \in BOOLEAN :
        (/\ i < j /\ swf[i].code = "PlaceObject" /\ swf[j].code = "PlaceObject"
         /\ swf[i].depth = swf[j].depth)
            => LET c == GotoPlaceObject_new(frame_of(i), swf[i], is_rewind, 1)
                   n == GotoPlaceObject_new(frame_of(j), swf[j], is_rewind, 2)
                   cmds == goto_place_object(
                               goto_place_object(<<>>, frame_of(i), swf[i], is_rewind, 1),
                               frame_of(j), swf[j], is_rewind, 2)
                   kept == n.action = "Modify"
               IN /\ Len(cmds) = 1
                  /\ cmds[1].index = 1 /\ cmds[1].depth = swf[i].depth
                  /\ kept => /\ cmds[1].action = c.action /\ cmds[1].id = c.id
                              /\ cmds[1].frame = c.frame
                  /\ ~kept => /\ cmds[1].action = n.action /\ cmds[1].id = n.id
                               /\ cmds[1].frame = n.frame
                  /\ \A f \in PlaceFields :
                        /\ n.fields[f] # None => cmds[1].fields[f] = n.fields[f]
                        /\ n.fields[f] = None => cmds[1].fields[f] = c.fields[f]

\* a goto from the start walked over a Place with a name or matrix and a
\* later Modify of the same depth: the child has the place frame and the
\* character of the Place and the matrix of the Modify
C25_Witness ==
    /\ last.op = "goto_frame" /\ ~panicked /\ last.from = 0
    /\ current_frame = last.args.frame
    /\ \E i, j \in 1..Len(swf) :
          /\ i < j /\ frame_of(i) < frame_of(j) /\ frame_of(j) <= current_frame
          /\ swf[i].code = "PlaceObject" /\ swf[i].depth = 1
          /\ swf[i].action \in {"Place", "Replace"} /\ swf[i].fields.matrix = "M1"
          /\ swf[j].code = "PlaceObject" /\ swf[j].depth = 1 /\ swf[j].action = "Modify"
          /\ swf[j].fields.matrix = "M2"
          /\ 1 \in DOMAIN children
          /\ nodes[children[1]].place_frame = frame_of(i)
          /\ nodes[children[1]].id = swf[i].id
          /\ nodes[children[1]].props.matrix = "M2"

\* The tags preload scans: those in front of the first End tag.
scanned ==
    {i \in 1..Len(swf) : \A j \in 1..i : swf[j].code # "End"}

\* Tag i is a stream header, or a stream block behind a stream header.
heard(i) ==
    \/ swf[i].code = "SoundStreamHead"
    \/ /\ swf[i].code = "SoundStreamBlock"
       /\ \E j \in 1..(i - 1) : swf[j].code = "SoundStreamHead"

\* The calls the audio backend is to see while the movie is preloaded.
preload_calls ==
    LET tags == SelectSeq([i \in 1..Len(swf) |-> i],
                          LAMBDA i : i \in scanned /\ heard(i))
        streamed == [k \in 1..Len(tags) |->
                       [call |-> IF swf[tags[k]].code = "SoundStreamHead"
                                 THEN "preload_sound_stream_head"
                                 ELSE "preload_sound_stream_block",
                        frame |-> 1 + shown_before(tags[k])]]
    IN IF tags = <<>> THEN <<>>
       ELSE Append(streamed, [call |-> "preload_sound_stream_end"])

\* C26: preload hands the audio backend, in the order of the stream, every
\* stream header and every stream block that comes behind a stream header,
\* each with the frame it lies on (one more than the ShowFrame tags before
\* it), drops the blocks in front of the first header, and calls
\* preload_sound_stream_end once, last, exactly when it met a header.
C26_PreloadStreamCallsInOrder ==
    (last.op = "preload" /\ ~panicked) => audio_calls = preload_calls

\* preload met a block, then a header, then a block on a later frame
C26_Witness ==
    /\ last.op = "preload" /\ ~panicked
    /\ \E i, j, k \in scanned :
          /\ i < j /\ j < k /\ shown_before(j) < shown_before(k)
          /\ swf[i].code = "SoundStreamBlock" /\ swf[j].code = "SoundStreamHead"
          /\ swf[k].code = "SoundStreamBlock"
          /\ audio_calls
                = << [call |-> "preload_sound_stream_head", frame |-> 1 + shown_before(j)],
                     [call |-> "preload_sound_stream_block", frame |-> 1 + shown_before(k)],
                     [call |-> "preload_sound_stream_end"] >>

\* The init actions and ABC blocks preload scans, as queued actions.
init_actions ==
    LET tags == SelectSeq([i \in 1..Len(swf) |-> i],
                          LAMBDA i : /\ i \in scanned
                                     /\ swf[i].code \in {"DoInitAction", "DoAbc"})
    IN [k \in 1..Len(tags) |->
          [clip |-> Self,
           action |-> IF swf[tags[k]].code = "DoAbc" THEN "DoABC" ELSE "Init",
           data |-> <<char_code(swf[tags[k]].data)>>, is_unload |-> FALSE]]

\* C27: preload queues the DoInitAction and DoAbc tags of the movie, in the
\* order of the stream, and the script runtime has run nothing when it
\* returns.
C27_PreloadOnlyQueuesInitActions ==
    (last.op = "preload" /\ ~panicked)
        => /\ avm1_runs = <<>>
           /\ action_queue = init_actions

\* Node n is a sprite with a KeyPress handler for the event.
consumes(s, n, event) ==
    /\ swf_version >= 5 /\ IsKeyPress(event)
    /\ s.nodes[n].kind = "MovieClip"
    /\ \E i \in 1..Len(s.nodes[n].clip_actions) : s.nodes[n].clip_actions[i].event = event

\* C28: when handle_clip_event offers a propagating event to the children,
\* in the order of the execution list, the first child with a KeyPress
\* handler for it queues its handlers and the clip returns Handled; no later
\* child and not the clip itself queue anything.  When no child consumes the
\* event, the clip returns Handled exactly when it has a KeyPress handler
\* for the event itself.
C28_KeyPressConsumedByOneInstance ==
    (preloaded /\ ~panicked /\ object)
        => \A event \in ClipEvents :
              LET r == handle_clip_event(Begin, event)
                  list == exec_list(Begin)
                  consumers == {k \in 1..Len(list) : consumes(Begin, list[k], event)}
                  own == /\ swf_version >= 5 /\ IsKeyPress(event)
                         /\ \E i \in 1..Len(clip_actions) : clip_actions[i].event = event
              IN /\ ~r.s.panicked
                 /\ IF propagates(event) /\ consumers # {}
                    THEN LET k == CHOOSE x \in consumers : \A y \in consumers : x <= y
                         IN /\ r.handled
                            /\ \E i \in 1..Len(r.s.action_queue) :
                                  r.s.action_queue[i].clip = list[k]
                            /\ \A i \in 1..Len(r.s.action_queue), j \in (k + 1)..Len(list) :
                                  r.s.action_queue[i].clip \notin {Self, list[j]}
                    ELSE r.handled = own

\* a KeyPress was offered to two sprites and a clip that all have a handler
\* for it: only the first sprite of the execution list queued its handler
C28_Witness ==
    /\ last.op = "handle_clip_event" /\ ~panicked
    /\ last.args.event = "KeyPress" /\ last.args.handled
    /\ clip_actions = KeyClipActions
    /\ Len(exec_list(Clip)) = 2
    /\ \A k \in 1..2 : consumes(Clip, exec_list(Clip)[k], "KeyPress")
    /\ action_queue = << [clip |-> first_child, action |-> "Normal",
                           data |-> "child_key", is_unload |-> FALSE] >>

\* C29: goto_frame to the frame the clip is on (frame 0 counting as frame 1)
\* does not seek: the frame, the position in the tag stream, the children
\* and their nodes are as before and nothing is queued; with stop the clip
\* is stopped and its audio stream, if any, is stopped; without stop the
\* clip plays if it has more than one frame and the stream is left alone.
C29_GotoCurrentFrameDoesNotSeek ==
    (preloaded /\ ~panicked /\ current_frame >= 1)
        => \A F \in {0, current_frame}, stop_clip \in BOOLEAN :
              (F = current_frame \/ current_frame = 1)
                 => LET r == goto_frame(Begin, F, stop_clip)
                    IN /\ ~r.panicked
                       /\ r.current_frame = current_frame
                       /\ r.tag_stream_pos = tag_stream_pos
                       /\ r.children = Begin.children /\ r.nodes = Begin.nodes
                       /\ r.first_child = Begin.first_child
                       /\ r.action_queue = <<>>
                       /\ IF stop_clip
                          THEN /\ ~r.playing /\ r.audio_stream = None
                               /\ r.audio_calls
                                     = IF audio_stream = None THEN <<>>
                                       ELSE << [call |-> "stop_stream",
                                                handle |-> audio_stream] >>
                          ELSE /\ r.playing = (playing \/ total_frames > 1)
                               /\ r.audio_stream = audio_stream
                               /\ r.audio_calls = <<>>

\* goto_frame with stop ran on the frame the clip was on, with a child on
\* the stage and a stream playing, on a frame that is not the last
C29_Witness ==
    /\ last.op = "goto_frame" /\ ~panicked
    /\ last.args.frame = last.from /\ last.args.stop
    /\ current_frame = last.from /\ current_frame < total_frames
    /\ ~playing /\ children # EmptyMap
    /\ audio_calls = << [call |-> "stop_stream", handle |-> "stream"] >>

\* C30: before the last frame next_frame ends one frame further with the
\* clip stopped; on the last frame it changes nothing.  Behind the first
\* frame prev_frame ends one frame back with the clip stopped; on frame 1
\* or 0 it changes nothing.
C30_NextPrevFrameStepByOne ==
    (preloaded /\ ~panicked /\ ~removed)
        => LET n == next_frame(Begin)
               p == prev_frame(Begin)
           IN /\ IF current_frame < total_frames
                 THEN /\ ~n.panicked /\ n.current_frame = current_frame + 1
                      /\ ~n.playing
                 ELSE n = Begin
              /\ IF current_frame > 1
                 THEN /\ ~p.panicked /\ p.current_frame = current_frame - 1
                      /\ ~p.playing
                 ELSE p = Begin

\* prev_frame stepped a playing clip back from its last frame and stopped it
C30_Witness ==
    /\ last.op = "prev_frame" /\ ~panicked
    /\ last.from = total_frames /\ current_frame = last.from - 1
    /\ ~playing /\ children # EmptyMap

\* the payloads of the DoAction tags of frame F, in the order of the stream
frame_actions(F) ==
    LET tags == SelectSeq([i \in 1..Len(swf) |-> [tag |-> swf[i], frame |-> frame_of(i)]],
                          LAMBDA x : x.tag.code = "DoAction" /\ x.frame = F)
    IN [i \in 1..Len(tags) |-> tags[i].tag.data]

without(list, node) == SelectSeq(list, LAMBDA n : n # node)

\* the sprites of a list of nodes
sprites_of(s, list) == SelectSeq(list, LAMBDA n : s.nodes[n].kind = "MovieClip")

\* C32: a child linked by instantiate_child or add_child_from_avm becomes
\* the head of the execution list in front of the children that stay, in
\* their order; run_frame runs the children in the order of the list, most
\* recently linked first, and then the clip's own event.
C32_ExecListIsInsertionStack ==
    (preloaded /\ ~panicked /\ ~removed)
        => LET list == exec_list(Begin)
               child == NewNode(Begin)
               ran == run_frame(Begin).action_queue
               sprites == sprites_of(Begin, list)
           IN /\ \A depth \in Depths, id \in DOMAIN library :
                    exec_list(instantiate_child(Begin, id, depth, NoFields, FALSE))
                        = <<child>> \o without(list, MapGet(Begin.children, depth))
              /\ \A depth \in Depths, first_run \in BOOLEAN :
                    exec_list(add_child_from_avm(Begin, ScriptClip(first_run), depth))
                        = <<child>> \o without(list, MapGet(Begin.children, depth))
              /\ Len(ran) > Len(sprites)
              /\ \A i \in 1..Len(sprites) : ran[i].clip = sprites[i]
              /\ ran[Len(sprites) + 1].clip = Self

\* run_frame ran the sprite at depth 2, placed after the sprite at depth 1,
\* before that one and both before the clip's own event
C32_Witness ==
    /\ last.op = "run_frame" /\ ~panicked
    /\ Len(action_queue) >= 3
    /\ action_queue[1].clip = MapGet(children, 2)
    /\ action_queue[2].clip = MapGet(children, 1)
    /\ action_queue[1].clip # NoNode /\ action_queue[2].clip # NoNode
    /\ action_queue[1].clip # action_queue[2].clip
    /\ action_queue[3].clip = Self
    /\ exec_list(Clip) = <<action_queue[1].clip, action_queue[2].clip>>

\* C33: between operations tag_stream_pos is 0 while current_frame is 0 and
\* otherwise the offset just behind the ShowFrame that closes current_frame.
C33_TagStreamPosFollowsPlayhead ==
    (preloaded /\ ~panicked)
        => tag_stream_pos = IF current_frame = 0 THEN 0 ELSE frame_start(current_frame + 1)

\* C34: between operations every child of the depth map was placed on the
\* current frame or before it.
C34_ChildrenPlacedByCurrentFrame ==
    (preloaded /\ ~panicked)
        => \A d \in DOMAIN children : nodes[children[d]].place_frame <= current_frame

\* a goto from frame 0 to frame 3 instantiated one child with the frame of
\* its command, frame 1, and one on the target frame
C34_Witness ==
    /\ last.op = "goto_frame" /\ last.from = 0 /\ ~panicked
    /\ current_frame = 3
    /\ \E d, e \in DOMAIN children :
          /\ nodes[children[d]].place_frame = 1
          /\ nodes[children[e]].place_frame = 3

\* the execution list holds the children of the depth map, each once, and
\* its links fit
linked(s) ==
    LET list == exec_list(s)
    IN /\ {list[i] : i \in 1..Len(list)} = {s.children[d] : d \in DOMAIN s.children}
       /\ \A i, j \in 1..Len(list) : list[i] = list[j] => i = j
       /\ \A d, e \in DOMAIN s.children : s.children[d] = s.children[e] => d = e
       /\ s.first_child # NoNode => s.nodes[s.first_child].prev_sibling = NoNode
       /\ \A i \in 1..Len(list) :
             /\ s.nodes[list[i]].next_sibling =
                    IF i < Len(list) THEN list[i + 1] ELSE NoNode
             /\ i > 1 => s.nodes[list[i]].prev_sibling = list[i - 1]

\* C35: between operations the nodes reachable from first_child are the
\* values of the depth map, each once, the head has no prev_sibling and the
\* prev and next links are inverse to each other.
C35_ExecListMatchesDepthMap ==
    (preloaded /\ ~panicked) => linked(Clip)

\* C36: remove_child_from_avm removes the passed child and no other node:
\* when another instance holds the depth of the passed child, the depth map,
\* the execution list and every node stay as they were and nothing is
\* unloaded.
C36_RemoveChildRemovesOnlyThatChild ==
    (preloaded /\ ~panicked)
        => \A held \in HeldChildren :
              LET s == Held(held)
                  child == held_child(held)
                  r == remove_child_from_avm(s, child)
                  others == DOMAIN s.nodes \ {child}
              IN /\ \A n \in others : /\ r.nodes[n].removed = s.nodes[n].removed
                                        /\ r.nodes[n].unloaded = 0
                 /\ \A d \in DOMAIN s.children :
                       s.children[d] # child => MapGet(r.children, d) = s.children[d]
                 /\ without(exec_list(r), child) = without(exec_list(s), child)

\* C37: in a movie of version 6 or later a clip event that has a handler
\* method never aborts, with or without a script object: neither dispatched
\* by itself nor by run_frame nor by unload.
C37_ClipEventToleratesNoScriptObject ==
    (preloaded /\ ~panicked /\ ~removed /\ swf_version >= 6)
        => /\ \A event \in {"Load", "EnterFrame", "Unload"} :
                 ~run_clip_event(Begin, event).panicked
           /\ ~run_frame(Begin).panicked
           /\ ~unload(Begin).panicked

\* C38: no frame-number sum leaves 16 bits: preload, run_frame and goto_frame
\* neither panic on an overflow nor hand a wrapped frame number to the audio
\* backend, the playhead stays within 0..65535 and the frame passed to
\* start_stream is the frame after the playhead's.
C38_FrameArithmeticFitsSixteenBits ==
    /\ current_frame \in 0..MaxFrameNumber
    /\ ~preloaded /\ ~panicked => ~preload(Begin).panicked
    /\ (preloaded /\ ~panicked /\ ~removed /\ object)
          => \A F \in {0, 1, MaxFrameNumber} :
                LET ran == IF F = 0 THEN run_frame(Begin) ELSE goto_frame(Begin, F, FALSE)
                IN /\ ~ran.panicked
                   /\ ran.current_frame \in 0..MaxFrameNumber
                   /\ \A i \in 1..Len(ran.audio_calls) :
                         ran.audio_calls[i].call = "start_stream"
                             => ran.audio_calls[i].frame \in 1..MaxFrameNumber

\* C39: the aggregation loop of run_goto(F) runs at most min(F, total_frames)
\* rounds, and when the seek hits its target the frame it re-runs lies before
\* the last: the nested run_frame_internal advances the playhead and never
\* starts another goto, so a looping run_frame_internal seeks once.
C39_GotoRecursionIsBounded ==
    (preloaded /\ ~panicked)
        => \A F \in 1..(MaxFrames + 1) :
              LET r == goto_deltas(Begin, F)
                  start == IF F < current_frame THEN 0 ELSE current_frame
                  rounds == r.s.current_frame - start
                  limit == IF F <= total_frames THEN F ELSE total_frames
              IN ~r.s.panicked
                    => /\ rounds >= 0 /\ rounds <= limit
                       /\ r.s.current_frame = F
                             => /\ r.s.current_frame - 1 >= 0
                                /\ r.s.current_frame - 1 < total_frames

\* run_frame on the last frame of a longer timeline looped: it sought frame
\* 1 and the nested frame run queued the action of that frame
C39_Witness ==
    /\ last.op = "run_frame" /\ ~panicked
    /\ total_frames > 1 /\ last.from = total_frames /\ current_frame = 1
    /\ \E i \in 1..Len(action_queue) :
          action_queue[i].action = "Normal" /\ action_queue[i].data = "a"

\* C9: preload and run_frame never abort, whatever the tag codes and the
\* declared tag lengths of the stream are (the clip has its script object, so
\* no event dispatch is involved).
C9_NeverPanics ==
    (last.op = "preload" \/ (last.op = "run_frame" /\ object)) => ~panicked

\* C2: linear equivalence of goto, display list.  For every target frame F
\* of the timeline, the display list (the child of every depth, its
\* character, place_frame and applied deltas) after goto_frame(F) from any
\* reachable state equals the display list after advancing linearly from
\* frame 1 to F.
C2_GotoDisplaysLinearPlayback ==
    (preloaded /\ ~panicked /\ ~removed)
        => \A F \in 1..total_frames, stop_clip \in BOOLEAN :
              display(goto_frame(Begin, F, stop_clip))
                  = display(linear(rewound(Begin), F))

\* C5: rewind Place-default.  In a rewind goto, every Place delta that is
\* applied to an existing child has all of its optional fields defined.
C5_RewindPlaceDeltaDefined ==
    (preloaded /\ ~panicked)
        => \A F \in 1..total_frames :
              LET r == goto_deltas(Begin, F)
              IN r.is_rewind =>
                    \A i \in 1..Len(r.goto_commands) :
                        LET c == r.goto_commands[i]
                        IN (c.action = "Place" /\ MapGet(r.s.children, c.depth) # NoNode)
                              => \A f \in PlaceFields : c.fields[f] # None

\* C3: for a child c of depth d with place_frame p and a seek to a
\* frame F >= p, c is the same instance after the seek if and only if no
\* Place or Replace with a non-zero character id and no Remove at depth d
\* lies between the starting frame and F.
C3_StableIffNothingIntervened ==
    (preloaded /\ ~panicked /\ ~removed)
        => \A F \in 1..total_frames : \A d \in DOMAIN Begin.children :
              LET c == Begin.children[d]
              IN (F # current_frame /\ F >= Begin.nodes[c].place_frame)
                    => (same_instance(run_goto(Begin, F), d, c)
                          <=> ~intervenes(d, current_frame, F))

\* C4: loop idempotence.  A run_frame_internal on a clip whose current_frame
\* equals total_frames, with total_frames > 1, leaves exactly the state
\* (current_frame, tag_stream_pos, children, audio handle) and the enqueued
\* actions that run_goto(1) leaves from the same state.
C4_LoopIsGotoFirstFrame ==
    (preloaded /\ ~panicked /\ current_frame = total_frames /\ total_frames > 1)
        => \A run_display_actions \in BOOLEAN :
              run_frame_internal(Begin, run_display_actions) = run_goto(Begin, 1)

\* A playing clip on its last frame ran a frame and is back on frame 1 with
\* the child of frame 1 on stage.
C4_Witness ==
    /\ last.op = "run_frame" /\ last.from = total_frames /\ total_frames > 1
    /\ current_frame = 1 /\ children # EmptyMap /\ ~panicked

====
